---- MODULE Spec2Model ----
(***************************************************************************)
(* SmolPot backend: the game manager (round orchestrator) of               *)
(* src/src/services/gameManager.js and the EOS oracle client (randomness   *)
(* beacon) of src/src/services/eosService.js, with the contract service    *)
(* (src/unnamed/part_005) and the Supabase service (src/unnamed/part_004)  *)
(* they call.  The EOS chain, the SmolPotCore contract and the database    *)
(* are the environment.                                                    *)
(***************************************************************************)
EXTENDS Integers, Sequences, FiniteSets, TLC

\* ------------------------------------------------------------------ bounds
\* Highest EOS block number the chain produces in the model.
MaxHead == 6
\* Largest number of configured EOS RPC endpoints (EOS_RPC_ENDPOINTS).
MaxEndpoints == 2
\* Concurrent invocations of the cron callback the model keeps apart.
MaxTicks == 2
\* Last value of the wall clock.
MaxNow == 2
\* Rounds (pot ids) the ledger opens.
MaxPot == 2
\* Tickets a round can sell.
MaxTickets == 1
\* GAME_TIMER_DURATION, in clock units (the default is 60 s).
TimerDuration == 1
\* waitForBlock's maxWaitMs, in clock units (the default is 300000 ms).
MaxWait == 2

\* Checks of the automation service that end without error.
MaxMonitored == 2
\* Largest uniqueParticipants a pot state reports.
MaxParticipants == 2
\* Largest timeRemaining a pot state reports.
MaxTimeRemaining == 1
\* NOTIFICATION_CONFIG.ERROR_COOLDOWN, in clock units (it is 300000 ms).
ErrorCooldown == 2
\* Runs of the monitor callback that can be in progress at once.
MaxChecks == 2
\* Requests to POST /api/bets/enter.
MaxRequests == 2
\* Largest betAmount of a request.
MaxBetAmount == 2

\* ------------------------------------------------------- program constants
\* EOS_FUTURE_BLOCKS default.
FutureBlockOffset == 5
\* Hex digits of a bytes32 seed.
HashDigits == 64
\* HTTP status getBlock takes for "block not yet produced".
NotFoundStatus == 400
\* GamePhase enum.
IDLE == 0
BETTING == 1
LOCKED == 2
COMPLETE == 3
\* A phase value outside the enum, as an upgraded contract may report, and
\* parseInt's NaN for a phase that is no integer.
UnknownPhase == COMPLETE + 1
NaN == 0 - 1
KnownPhases == {IDLE, BETTING, LOCKED, COMPLETE}

\* ------------------------------------------------------------------ strings
\* A string is a sequence of one-character strings.
Digits == {"0", "1", "2", "3", "4", "5", "6", "7", "8", "9"}
LowerHex == Digits \cup {"a", "b", "c", "d", "e", "f"}
UpperHex == {"A", "B", "C", "D", "E", "F"}

\* String.prototype.startsWith('0x')
StartsWith0x(s) == Len(s) >= 2 /\ s[1] = "0" /\ s[2] = "x"

\* String.prototype.toLowerCase on the alphabet of the model
LowerChar(c) ==
  CASE c = "A" -> "a" [] c = "B" -> "b" [] c = "C" -> "c"
    [] c = "D" -> "d" [] c = "E" -> "e" [] c = "F" -> "f"
    [] c = "X" -> "x" [] c = "G" -> "g" [] OTHER -> c
ToLowerCase(s) == [i \in 1..Len(s) |-> LowerChar(s[i])]

\* /^0x[0-9a-f]{64}$/ : the seed format of the specification and of the
\* eos_block_hash_format CHECK constraints of the schema
SeedFormatOK(s) ==
  /\ Len(s) = HashDigits + 2
  /\ StartsWith0x(s)
  /\ \A i \in 3..Len(s) : s[i] \in LowerHex

\* /^0x[0-9a-fA-F]{64}$/ : the check of ContractService.finishGame
ContractFormatOK(s) ==
  /\ Len(s) = HashDigits + 2
  /\ StartsWith0x(s)
  /\ \A i \in 3..Len(s) : s[i] \in LowerHex \cup UpperHex

\* ------------------------------------------------- the EOS chain's blocks
\* Block ids an RPC endpoint may put in the "id" field of a get_block reply:
\* the canonical 64 lower-case hex digits (two of them, to tell blocks
\* apart), an id that already carries 0x, upper-case hex, and a short id.
IdCanonical(d) == [i \in 1..HashDigits |-> IF i = 1 THEN d ELSE "a"]
IdPrefixed == <<"0", "x">> \o IdCanonical("3")
IdUpper == [i \in 1..HashDigits |-> IF i = 1 THEN "4" ELSE "A"]
IdShort == [i \in 1..(HashDigits - 1) |-> "b"]
IdShapes == << IdShort, IdCanonical("1"), IdUpper, IdPrefixed, IdCanonical("2") >>

\* The id of block n: a chain's produced blocks do not change, and each
\* shape is the id of some block.
BlockIdOf(n) == IdShapes[(n % Len(IdShapes)) + 1]

VARIABLES
  \* --- the EOS chain (environment)
  head,                 \* head_block_num
  lib,                  \* last_irreversible_block_num
  \* --- EosService
  nEndpoints,           \* this.rpcEndpoints.length
  currentEndpointIndex, \* this.currentEndpointIndex
  \* --- the SmolPotCore contract (environment)
  ledger,               \* [potId, phase, startTime, tickets]
  now,                  \* the wall clock
  \* --- GameManager
  mgr,                  \* initialized, isRunning, cronJob and the jobs scheduled
  isProcessing,         \* this.isProcessing
  tk,                   \* the invocations of checkAndProcessGameState
  \* --- the database (game_rounds, eos_proofs)
  dbRounds,
  dbProofs,
  \* --- observation of the run
  obs,                  \* what has been seen so far (history)
  \* --- the automation service (SmolPotAutomation, NotificationService)
  auto,                 \* the monitoring loop, one check at a step
  loop,                 \* the monitoring loop, one await at a step
  \* --- the bets API (POST /api/bets/enter) and its tables
  api

vars == << head, lib, nEndpoints, currentEndpointIndex, ledger, now,
           mgr, isProcessing, tk, dbRounds, dbProofs, obs, auto, loop, api >>

chainVars == << head, lib >>

Ticks == 1..MaxTicks
Checks == 1..MaxChecks
Requests == 1..MaxRequests
Pots == 1..MaxPot

\* ------------------------------------------------------------- EosService
NoError == [kind |-> "none", hasResponse |-> FALSE, status |-> 0, message |-> "none"]
NoInfo == [headBlockNum |-> 0, lastIrreversibleBlockNum |-> 0]
NoBlock == [blockNum |-> 0, blockId |-> << >>]
NoEosBlock == [blockNum |-> 0, blockHash |-> << >>]

\* What axios.post can produce on an endpoint that does not answer the
\* request: a timeout or connection error (no response) or a 5xx.
NetFailures ==
  { [kind |-> "axios", hasResponse |-> FALSE, status |-> 0, message |-> "timeout"],
    [kind |-> "axios", hasResponse |-> TRUE, status |-> 500, message |-> "status500"] }

\* axios.post(endpoint + '/v1/chain/get_info'): the replies possible now.
GetInfoReplies ==
  { [ok |-> TRUE, err |-> NoError,
     info |-> [head_block_num |-> head, last_irreversible_block_num |-> lib],
     block |-> NoBlock] }
  \cup { [ok |-> FALSE, err |-> e, info |-> [head_block_num |-> 0,
          last_irreversible_block_num |-> 0], block |-> NoBlock] : e \in NetFailures }

\* axios.post(endpoint + '/v1/chain/get_block', {block_num_or_id: n}): a
\* healthy endpoint answers a produced block with the block and a block
\* that does not exist yet with HTTP 400, which axios raises as an error
\* carrying the response.
GetBlockReplies(n) ==
  ( IF n <= head
      THEN { [ok |-> TRUE, err |-> NoError,
              info |-> [head_block_num |-> 0, last_irreversible_block_num |-> 0],
              block |-> [blockNum |-> n, blockId |-> BlockIdOf(n)]] }
      ELSE { [ok |-> FALSE,
              err |-> [kind |-> "axios", hasResponse |-> TRUE,
                       status |-> NotFoundStatus, message |-> "status400"],
              info |-> [head_block_num |-> 0, last_irreversible_block_num |-> 0],
              block |-> NoBlock] } )
  \cup { [ok |-> FALSE, err |-> e, info |-> [head_block_num |-> 0,
          last_irreversible_block_num |-> 0], block |-> NoBlock] : e \in NetFailures }

\* (variant: the failover stays on the failed endpoint)
SwitchToSameEndpoint(idx, n) == idx

\* switchToNextEndpoint
SwitchToNextEndpoint(idx, n) == (idx + 1) % n

\* makeRpcCall's throw after the loop: a new Error whose message quotes the
\* last failure; it carries no response.
AggregateError(lastError) ==
  [kind |-> "aggregate", hasResponse |-> FALSE, status |-> 0,
   message |-> lastError.message]

\* One iteration of makeRpcCall's loop, given the reply to its request.
\*   done, ok : the call returned response.data
\*   done, ~ok: the call threw err
\*   ~done    : the next iteration's request is sent
MakeRpcCallStep(attempt, idx, n, reply) ==
  IF reply.ok
    THEN [done |-> TRUE, ok |-> TRUE, err |-> NoError, attempt |-> attempt, idx |-> idx]
    ELSE IF attempt < n - 1
      THEN [done |-> FALSE, ok |-> FALSE, err |-> reply.err,
            attempt |-> attempt + 1, idx |-> SwitchToNextEndpoint(idx, n)]
      ELSE [done |-> TRUE, ok |-> FALSE, err |-> AggregateError(reply.err),
            attempt |-> attempt, idx |-> idx]

\* (variant: getBlock's catch returns null for every error)
GetBlockReturnsNullOnAnyError(error) == TRUE

\* getBlock's catch: error.response && error.response.status === 400
GetBlockReturnsNull(error) == error.hasResponse /\ error.status = NotFoundStatus

\* getFutureBlockHash's offset: blocksInFuture || this.futureBlockOffset
\* (a call without argument passes null, which is falsy as 0 is).
OffsetOf(blocksInFuture) ==
  IF blocksInFuture = 0 THEN FutureBlockOffset ELSE blocksInFuture

\* (variant: the target is the irreversible block itself)
TargetBlockNumWithoutOffset(chainInfo, offset) == chainInfo.lastIrreversibleBlockNum

\* (variant: the target is counted from the head block)
TargetBlockNumFromHead(chainInfo, offset) == chainInfo.headBlockNum + offset

\* getFutureBlockHash, step 1: the target block number
TargetBlockNum(chainInfo, offset) == chainInfo.lastIrreversibleBlockNum + offset

\* getFutureBlockHash, step 3: block id to 0x-prefixed hex string
BlockHashOf(blockId) ==
  IF StartsWith0x(blockId) THEN blockId ELSE <<"0", "x">> \o blockId

\* waitForBlock's loop condition: Date.now() - startTime < maxWaitMs
WaitLoopCondition(startTime, maxWaitMs) == now - startTime < maxWaitMs

\* ---------------------------------------------- the SmolPotCore contract
\* The contract is not part of this repository: the ledger follows the
\* specification's gateway port (phases advance Idle, Betting, Locked,
\* Complete and a call made in another phase is rejected).
NoState == [potId |-> 0, phase |-> IDLE, startTime |-> 0, tickets |-> 0]

LedgerAccepts(kind) ==
  CASE kind = "startGame" -> ledger.phase = IDLE
    [] kind = "lockGame" -> ledger.phase = BETTING
    [] kind = "emergencyCancel" -> ledger.phase = LOCKED /\ ledger.potId < MaxPot
    [] kind = "finishGame" -> ledger.phase = LOCKED /\ ledger.tickets > 0
    [] OTHER -> FALSE

LedgerAfter(kind) ==
  CASE kind = "startGame" ->
         [ledger EXCEPT !.phase = BETTING, !.startTime = now, !.tickets = 0]
    [] kind = "lockGame" -> [ledger EXCEPT !.phase = LOCKED]
    [] kind = "emergencyCancel" ->
         [ledger EXCEPT !.phase = IDLE, !.potId = @ + 1, !.tickets = 0]
    [] kind = "finishGame" -> [ledger EXCEPT !.phase = COMPLETE]
    [] OTHER -> ledger

\* How a submitted transaction can end: mined and confirmed to the caller
\* ("ok"), rejected or failed without effect ("rejected"), or mined while
\* the caller's wait fails ("lost").
TxOutcomes == {"ok", "rejected", "lost"}
TxApplied(kind, outcome) == outcome \in {"ok", "lost"} /\ LedgerAccepts(kind)
\* (variant: the caller does not wait for the receipt)
TxConfirmedWithoutReceipt(kind, outcome) == TRUE

TxConfirmed(kind, outcome) == outcome = "ok" /\ LedgerAccepts(kind)

\* ------------------------------------------------------------- GameManager
MutatingCalls == {"startGame", "lockGame", "emergencyCancel", "finishGame"}
BeaconCalls == {"chainInfo", "getBlock"}
PersistenceCalls == {"createGameRound", "updateGameRound", "storeEosProof"}

\* The manager's lifecycle fields, and what the cron library holds:
\*   jobs     scheduled jobs that have not been stopped
\*   last     how the last call of initialize, start or stop ended
\*   inFlightAtStop   an invocation was unfinished when stop() last ran
\* The constructor leaves the manager not initialized and not running.
ManagerConstructed ==
  [initialized |-> FALSE, isRunning |-> FALSE, cronJob |-> FALSE, jobs |-> 0,
   last |-> "none", inFlightAtStop |-> FALSE]

\* The manager as the server leaves it at startup: initialize(), start().
ManagerStarted ==
  [initialized |-> TRUE, isRunning |-> TRUE, cronJob |-> TRUE, jobs |-> 1,
   last |-> "started", inFlightAtStop |-> FALSE]

\* initialize(): the dependent services are initialized, or that fails.
Initialized(m, ok) ==
  IF m.initialized THEN [m EXCEPT !.last = "initialized"]
  ELSE IF ok THEN [m EXCEPT !.initialized = TRUE, !.last = "initialized"]
  ELSE [m EXCEPT !.last = "initFailed"]

\* (variant: start() does not test isRunning)
StartedUnguarded(m) ==
  IF ~m.initialized THEN [m EXCEPT !.last = "threw"]
  ELSE [m EXCEPT !.cronJob = TRUE, !.jobs = @ + 1, !.isRunning = TRUE,
                 !.last = "started"]

\* start()
Started(m) ==
  IF m.isRunning THEN [m EXCEPT !.last = "alreadyRunning"]
  ELSE IF ~m.initialized THEN [m EXCEPT !.last = "threw"]
  ELSE [m EXCEPT !.cronJob = TRUE, !.jobs = @ + 1, !.isRunning = TRUE,
                 !.last = "started"]

\* stop(); inFlight: an invocation is unfinished at the call
Stopped(m, inFlight) ==
  IF ~m.isRunning THEN [m EXCEPT !.last = "notRunning"]
  ELSE [m EXCEPT !.jobs = IF m.cronJob THEN @ - 1 ELSE @,
                 !.cronJob = FALSE, !.isRunning = FALSE,
                 !.last = "stopped", !.inFlightAtStop = inFlight]

\* A slot of checkAndProcessGameState: where the invocation stands (pc), the
\* state it read (st), the calls it has made (calls), the error it logged
\* (err), and the locals of getFutureBlockHash and waitForBlock:
\*   missing   every reply to the current getBlock call said "not yet
\*             produced" (HTTP 400)
\*   got       how the last getBlock call ended: block, null or throw
\*   polled, repolled   waitForBlock has polled once, more than once
\*   idx0      the endpoint index at which the current makeRpcCall started
\*   thrown    the error the last failed makeRpcCall threw
\*   lastFail  the failure of that call's last attempt
IdleTick ==
  [pc |-> "idle", st |-> NoState, calls |-> {}, err |-> "none",
   attempt |-> 0, info |-> NoInfo, target |-> 0, wStart |-> 0,
   sleeping |-> FALSE, polled |-> FALSE, repolled |-> FALSE,
   missing |-> FALSE, got |-> "none",
   idx0 |-> 0, thrown |-> NoError, lastFail |-> NoError,
   eosBlock |-> NoEosBlock, finishArg |-> << >>]

\* pc values at which a ledger-mutating call of the invocation is outstanding
TxPc == [startGame |-> "startGameTx", lockGame |-> "lockTx",
         emergencyCancel |-> "cancelTx", finishGame |-> "finishTx"]
TxPcs == {"startGameTx", "lockTx", "cancelTx", "finishTx"}

\* (variant: the guard never returns early)
GuardBlocksNever(processing) == FALSE

\* checkAndProcessGameState's guard: if (this.isProcessing) return
GuardBlocks(processing) == processing

\* The receiving slot of an invocation: the lowest free one.
FreeSlot(t) == tk[t].pc = "idle" /\ \A u \in Ticks : u < t => tk[u].pc # "idle"

\* (variant: checkAndProcessGameState has no catch of its own)
CatchOfWithoutOuter(err) ==
  CASE err = "getPotState" -> "scheduler"
    [] err = "startGame" -> "handleIdlePhase"
    [] err = "lockGame" -> "handleBettingPhase"
    [] err \in {"emergencyCancel", "getChainInfo", "getBlock", "beaconTimeout",
                "format", "finishGame"} -> "handleLockedPhase"
    [] OTHER -> "none"

\* The catch block that absorbs the error an invocation ended with
\* ("scheduler": no catch, the error leaves checkAndProcessGameState;
\* "none": nothing was thrown).  lockGame, finishGame and the beacon client
\* rethrow to the handler that called them.
CatchOf(err) ==
  CASE err = "getPotState" -> "checkAndProcessGameState"
    [] err = "startGame" -> "handleIdlePhase"
    [] err = "lockGame" -> "handleBettingPhase"
    [] err \in {"emergencyCancel", "getChainInfo", "getBlock", "beaconTimeout",
                "format", "finishGame"} -> "handleLockedPhase"
    [] OTHER -> "none"

\* (variant: no finally block; an invocation that failed just returns)
EndedWithoutFinally(tick, err) ==
  IF err = "none" THEN [tick EXCEPT !.pc = "finally", !.err = err] ELSE IdleTick

\* catch of a handler or of checkAndProcessGameState: the error is logged
\* and the invocation goes to its finally block.
Ended(tick, err) == [tick EXCEPT !.pc = "finally", !.err = err]

\* (variant: a call already submitted for the pot is not issued again)
SubmittedOnce(tick, kind) ==
  IF <<tick.st.potId, kind>> \in obs.subs
    THEN Ended(tick, "none")
    ELSE [tick EXCEPT !.pc = TxPc[kind], !.calls = @ \cup {kind}]

\* A handler issues call kind (a ledger-mutating one).
Submitted(tick, kind) ==
  [tick EXCEPT !.pc = TxPc[kind], !.calls = @ \cup {kind}]

\* (variant: the lock waits until the expiry time has passed)
TimerExpiredStrict(currentTime, startTime) == currentTime > startTime + TimerDuration

\* handleBettingPhase's test: currentTime >= expiryTime
TimerExpired(currentTime, startTime) == currentTime >= startTime + TimerDuration

\* (variant: the LOCKED case runs the Betting handler)
HandlerOfLockedAsBetting(currentPhase) ==
  CASE currentPhase = IDLE -> "handleIdlePhase"
    [] currentPhase = BETTING -> "handleBettingPhase"
    [] currentPhase = LOCKED -> "handleBettingPhase"
    [] currentPhase = COMPLETE -> "handleCompletePhase"
    [] OTHER -> "unknown"

\* (variant: the LOCKED case runs the Complete handler, which only logs)
HandlerOfLockedAsComplete(currentPhase) ==
  CASE currentPhase = IDLE -> "handleIdlePhase"
    [] currentPhase = BETTING -> "handleBettingPhase"
    [] currentPhase = LOCKED -> "handleCompletePhase"
    [] currentPhase = COMPLETE -> "handleCompletePhase"
    [] OTHER -> "unknown"

\* (variant: the COMPLETE case runs the Idle handler)
HandlerOfCompleteAsIdle(currentPhase) ==
  CASE currentPhase = IDLE -> "handleIdlePhase"
    [] currentPhase = BETTING -> "handleBettingPhase"
    [] currentPhase = LOCKED -> "handleLockedPhase"
    [] currentPhase = COMPLETE -> "handleIdlePhase"
    [] OTHER -> "unknown"

\* (variant: the default case falls into the Idle handler)
HandlerOfDefaultAsIdle(currentPhase) ==
  CASE currentPhase = BETTING -> "handleBettingPhase"
    [] currentPhase = LOCKED -> "handleLockedPhase"
    [] currentPhase = COMPLETE -> "handleCompletePhase"
    [] OTHER -> "handleIdlePhase"

\* The handler the switch of checkAndProcessGameState runs for a phase.
HandlerOf(currentPhase) ==
  CASE currentPhase = IDLE -> "handleIdlePhase"
    [] currentPhase = BETTING -> "handleBettingPhase"
    [] currentPhase = LOCKED -> "handleLockedPhase"
    [] currentPhase = COMPLETE -> "handleCompletePhase"
    [] OTHER -> "unknown"

\* (variant: the zero-ticket test is missing)
NoTicketsUnchecked(state) == FALSE

\* handleLockedPhase's test: parseInt(state.tickets) === 0
NoTickets(state) == state.tickets = 0

\* The first step of the handler, up to its first awaited call.
Dispatched(tick, state) ==
  LET t1 == [tick EXCEPT !.st = state]
      h == HandlerOf(state.phase)
  IN CASE h = "handleIdlePhase" -> Submitted(t1, "startGame")
       [] h = "handleBettingPhase" ->
            IF TimerExpired(now, state.startTime)
              THEN Submitted(t1, "lockGame")
              ELSE Ended(t1, "none")
       [] h = "handleLockedPhase" ->
            IF NoTickets(state)
              THEN Submitted(t1, "emergencyCancel")
              ELSE [t1 EXCEPT !.pc = "getChainInfo", !.attempt = 0,
                              !.idx0 = currentEndpointIndex,
                              !.calls = @ \cup {"chainInfo"}]
       [] h = "handleCompletePhase" -> Ended(t1, "none")
       [] OTHER -> Ended(t1, "unknownPhase")

\* ------------------------------------------------------------ observation
\* obs records, for the claims, what the run has done so far:
\*   subs      <<pot, kind>> of the ledger-mutating calls submitted
\*   okSubs    those the ledger applied (on the orchestrator's call or, in
\*             a race, on an operator's)
\*   reSub     one was submitted a second time
\*   afterOk   one was submitted again after the ledger had applied it
\*   retrying  the invocation in progress has submitted a lock or finish
\*             that an earlier one had submitted without effect
\*   nTargets  calls of getFutureBlockHash that fixed a target (2: more)
\*   prevTarget, lastTarget   the targets the last two of them fixed
\*   prevPointer, lastPointer   the finality pointers they had read
\*   lastMissed, prevMissed   how the last two of them failed on a target
\*             block that was missing: "no", "rpcError" or "timeout"
\*   escaped   an invocation has returned by throwing to the scheduler
\*   zeroPots  pots read Locked with no tickets
\*   beaconPots  pots for which the beacon client was called
ObsInit ==
  [subs |-> {}, okSubs |-> {}, reSub |-> FALSE, afterOk |-> FALSE,
   retrying |-> FALSE,
   nTargets |-> 0, prevTarget |-> 0, lastTarget |-> 0,
   prevPointer |-> 0, lastPointer |-> 0,
   prevMissed |-> "no", lastMissed |-> "no", escaped |-> FALSE,
   zeroPots |-> {}, beaconPots |-> {}]

ObsSubmit(o, pot, kind) ==
  [o EXCEPT !.subs = @ \cup {<<pot, kind>>},
            !.reSub = @ \/ <<pot, kind>> \in o.subs,
            !.afterOk = @ \/ <<pot, kind>> \in o.okSubs,
            !.retrying = kind \in {"lockGame", "finishGame"}
                            /\ <<pot, kind>> \in o.subs \ o.okSubs]

ObsApplied(o, pot, kind, applied) ==
  IF applied THEN [o EXCEPT !.okSubs = @ \cup {<<pot, kind>>}] ELSE o

ObsTarget(o, target, pointer) ==
  [o EXCEPT !.nTargets = IF @ < 2 THEN @ + 1 ELSE @,
            !.prevTarget = o.lastTarget, !.lastTarget = target,
            !.prevPointer = o.lastPointer, !.lastPointer = pointer,
            !.prevMissed = o.lastMissed, !.lastMissed = "no"]

\* waitForBlock has thrown in invocation tick: was its target block missing?
ObsWaitEnded(o, tick) ==
  IF tick.err = "beaconTimeout" THEN [o EXCEPT !.lastMissed = "timeout"]
  ELSE IF tick.err = "getBlock" /\ tick.missing
    THEN [o EXCEPT !.lastMissed = "rpcError"]
  ELSE o

\* What an invocation that has just been dispatched adds to obs.
ObsDispatched(o, tick) ==
  LET o1 == IF tick.st.phase = LOCKED /\ tick.st.tickets = 0
              THEN [o EXCEPT !.zeroPots = @ \cup {tick.st.potId}] ELSE o
      o2 == IF tick.pc = "getChainInfo"
              THEN [o1 EXCEPT !.beaconPots = @ \cup {tick.st.potId}] ELSE o1
  IN CASE tick.pc = "startGameTx" -> ObsSubmit(o2, tick.st.potId, "startGame")
       [] tick.pc = "lockTx" -> ObsSubmit(o2, tick.st.potId, "lockGame")
       [] tick.pc = "cancelTx" -> ObsSubmit(o2, tick.st.potId, "emergencyCancel")
       [] OTHER -> o2

\* ------------------------------------------------ the automation service
\* MONITORING_CONFIG
MinParticipants == 2
MaxConsecutiveErrors == 5

\* A key that is not in the cooldowns map.
NoEntry == 0 - 1

\* The types sendError is called with, and the type it passes to send.
ErrorTypes == {"winner_draw_failed", "consecutive_errors"}
ErrorNotification == "error"

\* sendError's cooldown key: `error_${data.type}`
ErrorKeyOf(type) == "error_" \o type

CooldownKeys == {ErrorNotification, "winner_drawn"} \cup {ErrorKeyOf(e) : e \in ErrorTypes}

\* isOnCooldown(key, cooldownMs)
IsOnCooldown(cooldowns, key, cooldownMs) ==
  IF cooldowns[key] = NoEntry THEN FALSE ELSE now - cooldowns[key] < cooldownMs

\* setCooldown(key)
SetCooldown(cooldowns, key) == [cooldowns EXCEPT ![key] = now]

\* send(type, message): the notification goes out (console, then the
\* Discord webhook); the cooldown of type is set unless the post failed.
Send(cooldowns, type, posted) ==
  IF posted THEN SetCooldown(cooldowns, type) ELSE cooldowns

\* sendError(data): the result is the cooldowns map after the call, whether
\* the notification went out (send completed), and whether the call threw
\* (a data object without an error field makes data.error.substring throw).
SendError(cooldowns, type, hasError, posted) ==
  IF IsOnCooldown(cooldowns, ErrorKeyOf(type), ErrorCooldown)
    THEN [cooldowns |-> cooldowns, sent |-> FALSE, threw |-> FALSE]
  ELSE IF ~hasError
    THEN [cooldowns |-> cooldowns, sent |-> FALSE, threw |-> TRUE]
  ELSE [cooldowns |-> Send(cooldowns, ErrorNotification, posted),
        sent |-> posted, threw |-> FALSE]

\* Pot states getPotState may return to the automation service.
NoPot == [isActive |-> FALSE, timeRemaining |-> NoEntry, uniqueParticipants |-> 0]
PotStates ==
  [isActive : BOOLEAN, timeRemaining : 0..MaxTimeRemaining,
   uniqueParticipants : 0..MaxParticipants]

\* (variant: the participants are not counted)
ShouldDrawAnyParticipants(potState) ==
  potState.isActive /\ potState.timeRemaining = 0

\* checkAndDrawWinner: shouldDraw
ShouldDraw(potState) ==
  /\ potState.isActive
  /\ potState.timeRemaining = 0
  /\ potState.uniqueParticipants >= MinParticipants

\* startMonitoringLoop: this.stats.errors > MAX_CONSECUTIVE_ERRORS
TooManyErrors(errors) == errors > MaxConsecutiveErrors

\* The automation service: the monitoring loop (running), its stats, the
\* notification service's cooldowns, and what the last check did:
\*   potState   the pot state it read (NoPot: the read threw)
\*   submitted  it submitted the drawWinner transaction
\*   failed     it ended in the loop's catch
\*   alert      the consecutive-errors alert: "none", "sent", "threw"
\*   streak     checks in a row that have failed, up to the last one
\*   lastSent   per error type, when its last notification went out
\*   tooSoon    two notifications of one type went out less than the
\*              cooldown apart
AutoInit ==
  [running |-> TRUE, monitored |-> 0, winnersDrawn |-> 0, errors |-> 0,
   cooldowns |-> [k \in CooldownKeys |-> NoEntry],
   potState |-> NoPot, submitted |-> FALSE, failed |-> FALSE, alert |-> "none",
   streak |-> 0,
   lastSent |-> [e \in ErrorTypes |-> NoEntry], tooSoon |-> FALSE]

\* The monitoring loop seen await by await.  Each run of the monitor
\* callback takes a slot:
\*   pc        "idle", or the call the check awaits: "getPotState",
\*             "estimateGas", "drawWinner" (the transaction is being
\*             submitted), "wait" (it is submitted and not yet confirmed),
\*             "sendWinnerDrawn", "sendError"
\*   potState  the pot state the check read
\*   fail      how drawWinner failed: with ("revert") or without ("fail")
\*             'revert' in the error message
\* and the service holds
\*   isRunning     this.isRunning
\*   shuttingDown  shutdown() is awaiting its notification
\*   exited        process.exit was called
\*   timers        monitor callbacks scheduled with setTimeout
\*   errors        this.stats.errors
CheckIdle == [pc |-> "idle", potState |-> NoPot, fail |-> "none"]

\* start() has set isRunning and startMonitoringLoop has called monitor(),
\* whose first check is awaiting getPotState.
LoopInit ==
  [isRunning |-> TRUE, shuttingDown |-> FALSE, exited |-> FALSE,
   timers |-> 0, errors |-> 0,
   check |-> [c \in Checks |->
                IF c = 1 THEN [CheckIdle EXCEPT !.pc = "getPotState"] ELSE CheckIdle]]

\* (variant: monitor does not test isRunning)
MonitorNeverReturnsEarly(isRunning) == FALSE

\* monitor: if (!this.isRunning) return
MonitorReturnsEarly(isRunning) == ~isRunning

\* The end of a check, in monitor: the catch counts a thrown error and
\* raises the alert, whose sendError throws out of monitor; otherwise the
\* next check is scheduled.
CheckEnded(l, c, thrown) ==
  LET errors == IF thrown THEN l.errors + 1 ELSE l.errors
      alertThrew == /\ thrown
                    /\ TooManyErrors(errors)
                    /\ SendError(auto.cooldowns, "consecutive_errors", FALSE, TRUE).threw
  IN [l EXCEPT !.errors = errors,
               !.timers = IF alertThrew THEN @ ELSE @ + 1,
               !.check[c] = CheckIdle]

\* ------------------------------------------------------------ the bets API
\* A request to POST /api/bets/enter: where its handler stands (pc: "idle",
\* the call it awaits, "done" after the success response, "failed" after an
\* error response), the betAmount, the round it got (currentRound.id) with
\* the total_pot that row had when it was read, and whether enterPotFor was
\* confirmed.
NoRequest ==
  [pc |-> "idle", amount |-> 0, roundId |-> 0, readTotal |-> 0, confirmed |-> FALSE]

\* A row of game_rounds as the API uses it, with the bets that point to it:
\* betSum is the sum of their amounts, unconfirmed counts those recorded
\* without a confirmed transaction.
NoRound == [status |-> "none", total_pot |-> 0, nBets |-> 0, betSum |-> 0,
            unconfirmed |-> 0]

\* No request yet and no round: the tables are empty.
ApiInit ==
  [nRounds |-> 0,
   rounds |-> [k \in Requests |-> NoRound],
   req |-> [r \in Requests |-> NoRequest]]

\* express-validator: betAmount isFloat({min: 0.000001})
ValidBetAmount(betAmount) == betAmount > 0

\* The handler's new total: parseFloat(currentRound.total_pot || '0') +
\* parseFloat(betAmount), written back as a string.  (On the whole amounts
\* of the model the conversions lose nothing.)
NewTotalPot(currentRound_total_pot, betAmount) == currentRound_total_pot + betAmount

\* ----------------------------------------------------------------- Init
\* The chain's head when the service starts.
InitHead == FutureBlockOffset - 1

\* Everything but the manager's lifecycle fields, as the constructors leave
\* it.
ServicesInit ==
  /\ head = InitHead
  /\ lib = 0
  /\ nEndpoints \in 1..MaxEndpoints
  /\ currentEndpointIndex = 0
  /\ ledger = [potId |-> 1, phase |-> IDLE, startTime |-> 0, tickets |-> 0]
  /\ now = 0
  /\ isProcessing = FALSE
  /\ tk = [t \in Ticks |-> IdleTick]
  /\ dbRounds = [p \in Pots |-> [rows |-> 0, phase |-> "none", hash |-> << >>]]
  /\ dbProofs = {}
  /\ obs = ObsInit
  /\ auto = AutoInit
  /\ loop = LoopInit
  /\ api = ApiInit

\* The server at the end of its startup: the manager initialized and started.
Init == ServicesInit /\ mgr = ManagerStarted

\* ------------------------------------------------------ the environment
\* The EOS chain produces its next block.
ProduceBlock ==
  /\ head < MaxHead
  /\ head' = head + 1
  /\ UNCHANGED << api, auto, loop, mgr, lib, nEndpoints, currentEndpointIndex, ledger, now,
                  isProcessing, tk, dbRounds, dbProofs, obs >>

\* Finality advances: the finality pointer never passes the head.  (It stops
\* where its target block is still within the blocks the model produces.)
AdvanceFinality ==
  /\ lib < head
  /\ lib < MaxHead - FutureBlockOffset
  /\ lib' = lib + 1
  /\ UNCHANGED << api, auto, loop, mgr, head, nEndpoints, currentEndpointIndex, ledger, now,
                  isProcessing, tk, dbRounds, dbProofs, obs >>

\* Time passes.
ClockTick ==
  /\ now < MaxNow
  /\ now' = now + 1
  /\ UNCHANGED << api, auto, loop, mgr, chainVars, nEndpoints, currentEndpointIndex, ledger,
                  isProcessing, tk, dbRounds, dbProofs, obs >>

\* A player's bet is entered on the ledger (tickets are sold while Betting).
EnterPot ==
  /\ ledger.phase = BETTING
  /\ ledger.tickets < MaxTickets
  /\ ledger' = [ledger EXCEPT !.tickets = @ + 1]
  /\ UNCHANGED << api, auto, loop, mgr, chainVars, nEndpoints, currentEndpointIndex, now,
                  isProcessing, tk, dbRounds, dbProofs, obs >>

\* An operator locks the round by hand in a race with the orchestrator:
\* after an invocation has read the round Betting and before its own lock
\* is mined.
OperatorLocks ==
  /\ ledger.phase = BETTING
  /\ \E t \in Ticks : tk[t].pc = TxPc["lockGame"]
  /\ ledger' = [ledger EXCEPT !.phase = LOCKED]
  /\ obs' = ObsApplied(obs, ledger.potId, "lockGame", TRUE)
  /\ UNCHANGED << api, auto, loop, mgr, chainVars, nEndpoints, currentEndpointIndex, now,
                  isProcessing, tk, dbRounds, dbProofs >>

\* After a contract upgrade a finished round reports a phase of its own
\* until it is settled.
UnknownPhaseEntered ==
  /\ ledger.phase = COMPLETE
  /\ ledger' = [ledger EXCEPT !.phase = UnknownPhase]
  /\ UNCHANGED << api, auto, loop, mgr, chainVars, nEndpoints, currentEndpointIndex, now,
                  isProcessing, tk, dbRounds, dbProofs, obs >>

\* After payout settlement the ledger returns to Idle with a new pot id.
Settle ==
  /\ ledger.phase \in {COMPLETE, UnknownPhase}
  /\ ledger.potId < MaxPot
  /\ ledger' = [ledger EXCEPT !.phase = IDLE, !.potId = @ + 1, !.tickets = 0]
  /\ UNCHANGED << api, auto, loop, mgr, chainVars, nEndpoints, currentEndpointIndex, now,
                  isProcessing, tk, dbRounds, dbProofs, obs >>

\* ------------------------------------------ checkAndProcessGameState
\* A scheduled cron job calls checkAndProcessGameState.  Behind the guard the
\* invocation returns at once; otherwise it sets isProcessing and calls
\* getPotState.
CronFire(t) ==
  /\ mgr.jobs > 0
  /\ FreeSlot(t)
  /\ IF GuardBlocks(isProcessing)
       THEN UNCHANGED << isProcessing, tk >>
       ELSE /\ isProcessing' = TRUE
            /\ tk' = [tk EXCEPT ![t] = [IdleTick EXCEPT !.pc = "getPotState",
                                                        !.calls = {"getPotState"}]]
  /\ UNCHANGED << api, auto, loop, mgr, chainVars, nEndpoints, currentEndpointIndex, ledger, now,
                  dbRounds, dbProofs, obs >>

\* getPotState returns (or throws) and the switch runs the handler up to
\* its first awaited call.
GetPotStateReply(t) ==
  /\ tk[t].pc = "getPotState"
  /\ \E ok \in BOOLEAN :
       LET tick == IF ok THEN Dispatched(tk[t], [potId |-> ledger.potId,
                                                 phase |-> ledger.phase,
                                                 startTime |-> ledger.startTime,
                                                 tickets |-> ledger.tickets])
                         ELSE Ended(tk[t], "getPotState")
       IN /\ tk' = [tk EXCEPT ![t] = tick]
          /\ obs' = IF ok THEN ObsDispatched(obs, tick) ELSE obs
  /\ UNCHANGED << api, auto, loop, mgr, chainVars, nEndpoints, currentEndpointIndex, ledger, now,
                  isProcessing, dbRounds, dbProofs >>

\* The finally block: this.isProcessing = false, and the invocation returns.
TickFinally(t) ==
  /\ tk[t].pc = "finally"
  /\ isProcessing' = FALSE
  /\ tk' = [tk EXCEPT ![t] = IdleTick]
  /\ obs' = [obs EXCEPT !.escaped = @ \/ CatchOf(tk[t].err) = "scheduler",
                         !.retrying = FALSE]
  /\ UNCHANGED << api, auto, loop, mgr, chainVars, nEndpoints, currentEndpointIndex, ledger, now,
                  dbRounds, dbProofs >>

\* --------------------------------------------------------- the database
\* SupabaseService.createGameRound: insert into game_rounds.
DbCreateGameRound(rounds, potId) ==
  [rounds EXCEPT ![potId] = [@ EXCEPT !.rows = IF @ < 2 THEN @ + 1 ELSE @,
                                      !.phase = "BETTING"]]

\* SupabaseService.updateGameRoundByPotId: update ... eq('pot_id') .single()
\* fails without a row, and on the eos_block_hash_format CHECK constraint.
DbUpdateAccepted(rounds, potId, hash) ==
  /\ rounds[potId].rows > 0
  /\ (hash = << >> \/ SeedFormatOK(hash))

DbUpdateGameRound(rounds, potId, phase, hash) ==
  [rounds EXCEPT ![potId] = [@ EXCEPT !.phase = phase,
                                      !.hash = IF hash = << >> THEN @ ELSE hash]]

\* SupabaseService.createEosProof: insert into eos_proofs, under its CHECK
\* (hash format) and UNIQUE (pot_id, eos_block_number) constraints.
DbProofAccepted(proofs, proof) ==
  /\ SeedFormatOK(proof.hash)
  /\ \A q \in proofs : ~(q.potId = proof.potId /\ q.blockNum = proof.blockNum)

\* ------------------------------------------------- handlers, continued
\* A ledger-mutating call of invocation t returns.  next is the pc after a
\* confirmed transaction and call the persistence call made there ("" for
\* none); a failed call is caught and ends the handler.
TxReply(t, kind, next, call) ==
  /\ tk[t].pc = TxPc[kind]
  /\ \E outcome \in TxOutcomes :
       /\ ledger' = IF TxApplied(kind, outcome) THEN LedgerAfter(kind) ELSE ledger
       /\ obs' = ObsApplied(obs, tk[t].st.potId, kind, TxApplied(kind, outcome))
       /\ tk' = [tk EXCEPT ![t] =
                   IF TxConfirmed(kind, outcome)
                     THEN IF next = "finally" THEN Ended(@, "none")
                          ELSE [@ EXCEPT !.pc = next, !.calls = @ \cup {call}]
                     ELSE Ended(@, kind)]
  /\ UNCHANGED << api, auto, loop, mgr, chainVars, nEndpoints, currentEndpointIndex, now,
                  isProcessing, dbRounds, dbProofs >>

\* (variant: createGameRound is called after the try block, whether or not
\* startGame was confirmed)
StartGameReplyThenCreate(t) ==
  /\ tk[t].pc = TxPc["startGame"]
  /\ \E outcome \in TxOutcomes :
       /\ ledger' = IF TxApplied("startGame", outcome)
                      THEN LedgerAfter("startGame") ELSE ledger
       /\ obs' = ObsApplied(obs, tk[t].st.potId, "startGame",
                            TxApplied("startGame", outcome))
       /\ tk' = [tk EXCEPT ![t] = [@ EXCEPT !.pc = "createRound",
                                            !.calls = @ \cup {"createGameRound"}]]
  /\ UNCHANGED << api, auto, loop, mgr, chainVars, nEndpoints, currentEndpointIndex, now,
                  isProcessing, dbRounds, dbProofs >>

\* handleIdlePhase: startGame() and tx.wait(), then createGameRound
StartGameReply(t) == TxReply(t, "startGame", "createRound", "createGameRound")

\* (variant: the record is updated whether or not the lock was confirmed)
LockGameReplyThenUpdate(t) ==
  /\ tk[t].pc = TxPc["lockGame"]
  /\ \E outcome \in TxOutcomes :
       /\ ledger' = IF TxApplied("lockGame", outcome)
                      THEN LedgerAfter("lockGame") ELSE ledger
       /\ obs' = ObsApplied(obs, tk[t].st.potId, "lockGame",
                            TxApplied("lockGame", outcome))
       /\ tk' = [tk EXCEPT ![t] = [@ EXCEPT !.pc = "updateLock",
                                            !.calls = @ \cup {"updateGameRound"}]]
  /\ UNCHANGED << api, auto, loop, mgr, chainVars, nEndpoints, currentEndpointIndex, now,
                  isProcessing, dbRounds, dbProofs >>

\* lockGame: contractService.lockGame(), then updateGameRound
LockGameReply(t) == TxReply(t, "lockGame", "updateLock", "updateGameRound")

\* (variant: a confirmed cancellation is recorded as the end of the round)
EmergencyCancelReplyThenRecord(t) ==
  TxReply(t, "emergencyCancel", "updateFinish", "updateGameRound")

\* handleLockedPhase: emergencyCancel() and tx.wait(), then return
EmergencyCancelReply(t) == TxReply(t, "emergencyCancel", "finally", "")

\* finishGame: contractService.finishGame(blockHash), then updateGameRound
FinishGameReply(t) == TxReply(t, "finishGame", "updateFinish", "updateGameRound")

\* createGameRound: a failure is logged and swallowed
CreateRoundReply(t) ==
  /\ tk[t].pc = "createRound"
  /\ \E ok \in BOOLEAN :
       dbRounds' = IF ok THEN DbCreateGameRound(dbRounds, tk[t].st.potId) ELSE dbRounds
  /\ tk' = [tk EXCEPT ![t] = Ended(@, "none")]
  /\ UNCHANGED << api, auto, loop, mgr, chainVars, nEndpoints, currentEndpointIndex, ledger, now,
                  isProcessing, dbProofs, obs >>

\* updateGameRound of lockGame: phase LOCKED
UpdateLockReply(t) ==
  /\ tk[t].pc = "updateLock"
  /\ \E ok \in BOOLEAN :
       dbRounds' = IF ok /\ DbUpdateAccepted(dbRounds, tk[t].st.potId, << >>)
                     THEN DbUpdateGameRound(dbRounds, tk[t].st.potId, "LOCKED", << >>)
                     ELSE dbRounds
  /\ tk' = [tk EXCEPT ![t] = Ended(@, "none")]
  /\ UNCHANGED << api, auto, loop, mgr, chainVars, nEndpoints, currentEndpointIndex, ledger, now,
                  isProcessing, dbProofs, obs >>

\* (variant: a failed update of the finished round is rethrown, so that
\* finishGame's catch ends the handler before storeEosProof)
UpdateFinishReplyRethrows(t) ==
  /\ tk[t].pc = "updateFinish"
  /\ \E ok \in BOOLEAN :
       LET accepted == ok /\ DbUpdateAccepted(dbRounds, tk[t].st.potId,
                                              tk[t].eosBlock.blockHash)
       IN /\ dbRounds' = IF accepted
                           THEN DbUpdateGameRound(dbRounds, tk[t].st.potId,
                                                  "COMPLETE", tk[t].eosBlock.blockHash)
                           ELSE dbRounds
          /\ tk' = [tk EXCEPT ![t] =
                      IF accepted
                        THEN [@ EXCEPT !.pc = "storeProof",
                                       !.calls = @ \cup {"storeEosProof"}]
                        ELSE Ended(@, "finishGame")]
  /\ UNCHANGED << api, auto, loop, mgr, chainVars, nEndpoints, currentEndpointIndex, ledger, now,
                  isProcessing, dbProofs, obs >>

\* updateGameRound of finishGame: phase COMPLETE with winner and EOS block;
\* storeEosProof is called next whether or not the update succeeded
UpdateFinishReply(t) ==
  /\ tk[t].pc = "updateFinish"
  /\ \E ok \in BOOLEAN :
       dbRounds' = IF ok /\ DbUpdateAccepted(dbRounds, tk[t].st.potId,
                                             tk[t].eosBlock.blockHash)
                     THEN DbUpdateGameRound(dbRounds, tk[t].st.potId, "COMPLETE",
                                            tk[t].eosBlock.blockHash)
                     ELSE dbRounds
  /\ tk' = [tk EXCEPT ![t] = [@ EXCEPT !.pc = "storeProof",
                                       !.calls = @ \cup {"storeEosProof"}]]
  /\ UNCHANGED << api, auto, loop, mgr, chainVars, nEndpoints, currentEndpointIndex, ledger, now,
                  isProcessing, dbProofs, obs >>

\* storeEosProof: a failure is logged and swallowed
StoreProofReply(t) ==
  /\ tk[t].pc = "storeProof"
  /\ LET proof == [potId |-> tk[t].st.potId,
                   blockNum |-> tk[t].eosBlock.blockNum,
                   hash |-> tk[t].eosBlock.blockHash]
     IN \E ok \in BOOLEAN :
          dbProofs' = IF ok /\ DbProofAccepted(dbProofs, proof)
                        THEN dbProofs \cup {proof} ELSE dbProofs
  /\ tk' = [tk EXCEPT ![t] = Ended(@, "none")]
  /\ UNCHANGED << api, auto, loop, mgr, chainVars, nEndpoints, currentEndpointIndex, ledger, now,
                  isProcessing, dbRounds, obs >>

\* ------------------------------------ getFutureBlockHash, inside a tick
\* (variant: finish is called with a fixed placeholder seed)
FinishGameCalledPlaceholder(tick, eosBlock) ==
  [Submitted([tick EXCEPT !.eosBlock = eosBlock, !.attempt = 0, !.idx0 = 0,
                   !.wStart = 0],
             "finishGame")
     EXCEPT !.finishArg = <<"0", "x">> \o [i \in 1..HashDigits |-> "0"]]

\* (variant: finish is submitted without the format check)
FinishGameCalledUnchecked(tick, eosBlock) ==
  [Submitted([tick EXCEPT !.eosBlock = eosBlock, !.attempt = 0, !.idx0 = 0,
                   !.wStart = 0],
             "finishGame")
     EXCEPT !.finishArg = eosBlock.blockHash]

\* contractService.finishGame(eosBlock.blockHash): the format check, then
\* the transaction.  A hash that fails the check throws before any call.
FinishGameCalled(tick, eosBlock) ==
  LET t1 == [tick EXCEPT !.eosBlock = eosBlock, !.attempt = 0, !.idx0 = 0,
                   !.wStart = 0]
  IN IF ContractFormatOK(eosBlock.blockHash)
       THEN [Submitted(t1, "finishGame") EXCEPT !.finishArg = eosBlock.blockHash]
       ELSE Ended(t1, "format")

\* waitForBlock's loop head, at entry and after each sleep: poll again, or
\* throw the timeout.
WaitLoopHead(tick) ==
  IF WaitLoopCondition(tick.wStart, MaxWait)
    THEN [tick EXCEPT !.pc = "getBlock", !.attempt = 0, !.sleeping = FALSE,
                      !.idx0 = currentEndpointIndex,
                      !.repolled = tick.polled, !.polled = TRUE,
                      !.calls = @ \cup {"getBlock"}]
    ELSE Ended(tick, "beaconTimeout")

\* getChainInfo's request is answered: makeRpcCall tries the next endpoint,
\* throws, or returns; then the target is fixed and waitForBlock starts.
GetChainInfoReply(t) ==
  /\ tk[t].pc = "getChainInfo"
  /\ \E reply \in GetInfoReplies :
       LET step == MakeRpcCallStep(tk[t].attempt, currentEndpointIndex,
                                   nEndpoints, reply)
           chainInfo == [headBlockNum |-> reply.info.head_block_num,
                         lastIrreversibleBlockNum |->
                           reply.info.last_irreversible_block_num]
           target == TargetBlockNum(chainInfo, OffsetOf(0))
       IN /\ currentEndpointIndex' = step.idx
          /\ tk' = [tk EXCEPT ![t] =
               IF ~step.done THEN [@ EXCEPT !.attempt = step.attempt]
               ELSE IF ~step.ok
                 THEN Ended([@ EXCEPT !.thrown = step.err, !.lastFail = reply.err],
                            "getChainInfo")
               ELSE WaitLoopHead([@ EXCEPT !.info = chainInfo,
                                           !.target = target,
                                           !.wStart = now])]
          /\ obs' = IF step.done /\ step.ok
                      THEN ObsTarget(obs, target, chainInfo.lastIrreversibleBlockNum)
                      ELSE obs
  /\ UNCHANGED << api, auto, loop, mgr, chainVars, nEndpoints, ledger, now, isProcessing,
                  dbRounds, dbProofs >>

\* waitForBlock: a getBlock request is answered, or the sleep between two
\* polls ends.
WaitForBlockStep(t) ==
  /\ tk[t].pc = "getBlock"
  /\ \E reply \in GetBlockReplies(tk[t].target) :
       LET step == MakeRpcCallStep(tk[t].attempt, currentEndpointIndex,
                                   nEndpoints, reply)
           seen == [tk[t] EXCEPT !.missing = (tk[t].attempt = 0 \/ @)
                                              /\ reply.err.status = NotFoundStatus]
           tick ==
             IF tk[t].sleeping THEN WaitLoopHead(tk[t])
             ELSE IF ~step.done THEN [seen EXCEPT !.attempt = step.attempt]
             ELSE IF step.ok
               THEN FinishGameCalled([seen EXCEPT !.got = "block"],
                      [blockNum |-> reply.block.blockNum,
                       blockHash |-> BlockHashOf(reply.block.blockId)])
             ELSE IF GetBlockReturnsNull(step.err)
               THEN [seen EXCEPT !.got = "null", !.sleeping = TRUE]
             ELSE Ended([seen EXCEPT !.got = "throw", !.thrown = step.err,
                                     !.lastFail = reply.err], "getBlock")
       IN /\ tk' = [tk EXCEPT ![t] = tick]
          /\ currentEndpointIndex' =
               IF tk[t].sleeping THEN currentEndpointIndex ELSE step.idx
          /\ obs' = IF tick.pc = "finishTx"
                      THEN ObsSubmit(obs, tick.st.potId, "finishGame")
                      ELSE ObsWaitEnded(obs, tick)
  /\ UNCHANGED << api, auto, loop, mgr, chainVars, nEndpoints, ledger, now, isProcessing,
                  dbRounds, dbProofs >>

\* ------------------------------------------------------------------ Next
Next ==
  \/ ProduceBlock
  \/ AdvanceFinality
  \/ ClockTick
  \/ EnterPot
  \/ OperatorLocks
  \/ UnknownPhaseEntered
  \/ Settle
  \/ \E t \in Ticks : CronFire(t)
  \/ \E t \in Ticks : GetPotStateReply(t)
  \/ \E t \in Ticks : StartGameReply(t)
  \/ \E t \in Ticks : CreateRoundReply(t)
  \/ \E t \in Ticks : LockGameReply(t)
  \/ \E t \in Ticks : UpdateLockReply(t)
  \/ \E t \in Ticks : EmergencyCancelReply(t)
  \/ \E t \in Ticks : GetChainInfoReply(t)
  \/ \E t \in Ticks : WaitForBlockStep(t)
  \/ \E t \in Ticks : FinishGameReply(t)
  \/ \E t \in Ticks : UpdateFinishReply(t)
  \/ \E t \in Ticks : StoreProofReply(t)
  \/ \E t \in Ticks : TickFinally(t)

Spec == Init /\ [][Next]_vars

\* ------------------------------------------------ the manager's lifecycle
\* initialize(), called by the server at startup; it can be called again.
Initialize ==
  /\ \E ok \in BOOLEAN : mgr' = Initialized(mgr, ok)
  /\ UNCHANGED << api, auto, loop, chainVars, nEndpoints, currentEndpointIndex, ledger, now,
                  isProcessing, tk, dbRounds, dbProofs, obs >>

\* start()
Start ==
  /\ mgr' = Started(mgr)
  /\ UNCHANGED << api, auto, loop, chainVars, nEndpoints, currentEndpointIndex, ledger, now,
                  isProcessing, tk, dbRounds, dbProofs, obs >>

\* stop().  (The server's signal handlers call it and then exit the
\* process; here the caller goes on running.)
Stop ==
  /\ mgr' = Stopped(mgr, \E t \in Ticks : tk[t].pc # "idle")
  /\ UNCHANGED << api, auto, loop, chainVars, nEndpoints, currentEndpointIndex, ledger, now,
                  isProcessing, tk, dbRounds, dbProofs, obs >>

\* The orchestrator from its construction on, with one endpoint.
LifecycleInit == ServicesInit /\ nEndpoints = 1 /\ mgr = ManagerConstructed

LifecycleNext ==
  \/ Initialize
  \/ Start
  \/ Stop
  \/ Next

LifecycleSpec == LifecycleInit /\ [][LifecycleNext]_vars

\* ------------------------------------------- the automation service runs
\* How drawWinner can end: confirmed, or failing at estimateGas or at the
\* transaction, with or without 'revert' in the error message.
DrawOutcomes == {"ok", "estimateRevert", "estimateFail", "txRevert", "txFail"}

\* One run of the monitoring loop's callback: checkAndDrawWinner (getPotState,
\* and drawWinner when shouldDraw), the stats, the catch with the
\* consecutive-errors alert, and the scheduling of the next check.
\*   read    getPotState returned a state, or threw with 'revert' or 'No
\*           active pot' in the message, or threw another error
\*   posted  send completed (the Discord post, if enabled, succeeded)
MonitorCheck ==
  /\ auto.running
  /\ auto.monitored < MaxMonitored
  /\ \E read \in {"state", "revert", "network"}, potState \in PotStates,
        draw \in DrawOutcomes, posted \in BOOLEAN :
       LET drawing == read = "state" /\ ShouldDraw(potState)
           drawFailed == drawing /\ draw # "ok"
           \* drawWinner: sendWinnerDrawn, or its catch's sendError
           n1 == IF drawFailed
                   THEN SendError(auto.cooldowns, "winner_draw_failed", TRUE, posted)
                   ELSE [cooldowns |-> IF drawing
                                         THEN Send(auto.cooldowns, "winner_drawn", posted)
                                         ELSE auto.cooldowns,
                         sent |-> FALSE, threw |-> FALSE]
           \* checkAndDrawWinner's catch returns on 'revert', rethrows the rest
           thrown == \/ read = "network"
                     \/ drawFailed /\ draw \in {"estimateFail", "txFail"}
           errors == IF thrown THEN auto.errors + 1 ELSE auto.errors
           alerting == thrown /\ TooManyErrors(errors)
           n2 == IF alerting
                   THEN SendError(n1.cooldowns, "consecutive_errors", FALSE, posted)
                   ELSE [cooldowns |-> n1.cooldowns, sent |-> FALSE, threw |-> FALSE]
           sentTypes == (IF n1.sent THEN {"winner_draw_failed"} ELSE {})
                          \cup (IF n2.sent THEN {"consecutive_errors"} ELSE {})
       IN auto' =
            [running |-> ~n2.threw,
             monitored |-> IF thrown THEN auto.monitored ELSE auto.monitored + 1,
             winnersDrawn |-> IF drawing /\ draw = "ok"
                                THEN auto.winnersDrawn + 1 ELSE auto.winnersDrawn,
             errors |-> errors,
             cooldowns |-> n2.cooldowns,
             potState |-> IF read = "state" THEN potState ELSE NoPot,
             submitted |-> drawing /\ draw \in {"ok", "txRevert", "txFail"},
             failed |-> thrown,
             alert |-> IF ~alerting THEN "none"
                       ELSE IF n2.threw THEN "threw"
                       ELSE IF n2.sent THEN "sent" ELSE "suppressed",
             streak |-> IF thrown THEN auto.streak + 1 ELSE 0,
             lastSent |-> [e \in ErrorTypes |->
                             IF e \in sentTypes THEN now ELSE auto.lastSent[e]],
             tooSoon |-> \/ auto.tooSoon
                         \/ \E e \in sentTypes :
                              /\ auto.lastSent[e] # NoEntry
                              /\ now - auto.lastSent[e] < ErrorCooldown]
  /\ UNCHANGED << api, loop, mgr, chainVars, nEndpoints, currentEndpointIndex, ledger, now,
                  isProcessing, tk, dbRounds, dbProofs, obs >>

\* The automation service alone: its monitoring loop and the clock.
AutoNext ==
  \/ MonitorCheck
  \/ ClockTick

\* The service starts beside an orchestrator configured with one endpoint.
AutoStart == Init /\ nEndpoints = 1

AutoSpec == AutoStart /\ [][AutoNext]_vars

\* ------------------------------------------------ POST /api/bets/enter
ApiUnchanged ==
  UNCHANGED << auto, loop, mgr, chainVars, nEndpoints, currentEndpointIndex,
               ledger, now, isProcessing, tk, dbRounds, dbProofs, obs >>

\* A request arrives: validation, then getOrCreateUser and
\* getCurrentGameRound are called.
BetRequest(r) ==
  /\ api.req[r].pc = "idle"
  /\ \E betAmount \in 0..MaxBetAmount :
       api' = [api EXCEPT !.req[r] =
                 IF ValidBetAmount(betAmount)
                   THEN [@ EXCEPT !.pc = "getCurrentGameRound", !.amount = betAmount]
                   ELSE [@ EXCEPT !.pc = "failed", !.amount = betAmount]]
  /\ ApiUnchanged

\* getCurrentGameRound returns the latest round in BETTING or LOCKED, or
\* null; without a round the handler creates one, and for a LOCKED round it
\* answers 400.
BetCurrentRoundReply(r) ==
  /\ api.req[r].pc = "getCurrentGameRound"
  /\ \E ok \in BOOLEAN :
       api' = [api EXCEPT !.req[r] =
                 IF ~ok THEN [@ EXCEPT !.pc = "failed"]
                 ELSE IF api.nRounds = 0 THEN [@ EXCEPT !.pc = "createGameRound"]
                 ELSE IF api.rounds[api.nRounds].status = "LOCKED"
                   THEN [@ EXCEPT !.pc = "failed"]
                 ELSE [@ EXCEPT !.pc = "enterPotFor", !.roundId = api.nRounds,
                                !.readTotal = api.rounds[api.nRounds].total_pot]]
  /\ ApiUnchanged

\* createGameRound() inserts a BETTING round with total_pot '0'.
BetCreateRoundReply(r) ==
  /\ api.req[r].pc = "createGameRound"
  /\ \E ok \in BOOLEAN :
       api' = IF ok
                THEN [api EXCEPT !.nRounds = @ + 1,
                                 !.rounds[api.nRounds + 1] =
                                    [NoRound EXCEPT !.status = "BETTING"],
                                 !.req[r] = [@ EXCEPT !.pc = "enterPotFor",
                                                      !.roundId = api.nRounds + 1,
                                                      !.readTotal = 0]]
                ELSE [api EXCEPT !.req[r].pc = "failed"]
  /\ ApiUnchanged

\* contractService.enterPotFor: the transaction is confirmed, or the call
\* throws.
BetEnterPotReply(r) ==
  /\ api.req[r].pc = "enterPotFor"
  /\ \E ok \in BOOLEAN :
       api' = [api EXCEPT !.req[r] =
                 IF ok THEN [@ EXCEPT !.pc = "recordBet", !.confirmed = TRUE]
                       ELSE [@ EXCEPT !.pc = "failed"]]
  /\ ApiUnchanged

\* recordBet inserts the bet for currentRound.id.
BetRecordReply(r) ==
  /\ api.req[r].pc = "recordBet"
  /\ \E ok \in BOOLEAN :
       api' = IF ok
                THEN [api EXCEPT
                        !.rounds[api.req[r].roundId] =
                           [@ EXCEPT !.nBets = @ + 1,
                                     !.betSum = @ + api.req[r].amount,
                                     !.unconfirmed =
                                        IF api.req[r].confirmed THEN @ ELSE @ + 1],
                        !.req[r].pc = "updateGameRound"]
                ELSE [api EXCEPT !.req[r].pc = "failed"]
  /\ ApiUnchanged

\* updateGameRound(currentRound.id, {total_pot: newTotalPot}), then the
\* success response.
BetUpdateRoundReply(r) ==
  /\ api.req[r].pc = "updateGameRound"
  /\ \E ok \in BOOLEAN :
       api' = IF ok
                THEN [api EXCEPT
                        !.rounds[api.req[r].roundId].total_pot =
                           NewTotalPot(api.req[r].readTotal, api.req[r].amount),
                        !.req[r].pc = "done"]
                ELSE [api EXCEPT !.req[r].pc = "failed"]
  /\ ApiUnchanged

BetNext ==
  \/ \E r \in Requests : BetRequest(r)
  \/ \E r \in Requests : BetCurrentRoundReply(r)
  \/ \E r \in Requests : BetCreateRoundReply(r)
  \/ \E r \in Requests : BetEnterPotReply(r)
  \/ \E r \in Requests : BetRecordReply(r)
  \/ \E r \in Requests : BetUpdateRoundReply(r)

\* The API beside an orchestrator with one endpoint.
BetStart == Init /\ nEndpoints = 1

BetSpec == BetStart /\ [][BetNext]_vars

\* ------------------------------- the monitoring loop, await by await
\* The receiving slot of a run of monitor: the lowest free one.
FreeCheck(c) ==
  loop.check[c].pc = "idle" /\ \A d \in Checks : d < c => loop.check[d].pc # "idle"

LoopUnchanged ==
  UNCHANGED << api, auto, mgr, chainVars, nEndpoints, currentEndpointIndex,
               ledger, now, isProcessing, tk, dbRounds, dbProofs, obs >>

\* A setTimeout callback runs monitor: it returns at once when the service
\* is not running, and otherwise calls getPotState.
MonitorFires(c) ==
  /\ ~loop.exited
  /\ loop.timers > 0
  /\ FreeCheck(c)
  /\ loop' = IF MonitorReturnsEarly(loop.isRunning)
               THEN [loop EXCEPT !.timers = @ - 1]
               ELSE [loop EXCEPT !.timers = @ - 1, !.check[c].pc = "getPotState"]
  /\ LoopUnchanged

\* getPotState returns or throws; checkAndDrawWinner's catch swallows an
\* error with 'revert' or 'No active pot' in its message.
LoopPotStateReply(c) ==
  /\ ~loop.exited
  /\ loop.check[c].pc = "getPotState"
  /\ \E read \in {"state", "revert", "network"}, potState \in PotStates :
       loop' = IF read = "state" /\ ShouldDraw(potState)
                 THEN [loop EXCEPT !.check[c].pc = "estimateGas",
                                   !.check[c].potState = potState]
                 ELSE CheckEnded(loop, c, read = "network")
  /\ LoopUnchanged

\* An awaited call of drawWinner's try block returns (the check goes on to
\* next) or throws (drawWinner's catch calls sendError).
DrawStep(c, pc, next) ==
  /\ ~loop.exited
  /\ loop.check[c].pc = pc
  /\ \E outcome \in {"ok", "revert", "fail"} :
       loop' = IF outcome = "ok"
                 THEN [loop EXCEPT !.check[c].pc = next]
                 ELSE [loop EXCEPT !.check[c].pc = "sendError",
                                   !.check[c].fail = outcome]
  /\ LoopUnchanged

\* drawWinner.estimateGas() and getFeeData()
EstimateGasReply(c) == DrawStep(c, "estimateGas", "drawWinner")

\* contract.drawWinner({gasLimit, gasPrice}): the transaction is submitted
DrawWinnerReply(c) == DrawStep(c, "drawWinner", "wait")

\* tx.wait(CONFIRMATION_BLOCKS)
TxWaitReply(c) == DrawStep(c, "wait", "sendWinnerDrawn")

\* sendWinnerDrawn returns (send swallows its failures); the check ends.
WinnerDrawnSent(c) ==
  /\ ~loop.exited
  /\ loop.check[c].pc = "sendWinnerDrawn"
  /\ loop' = CheckEnded(loop, c, FALSE)
  /\ LoopUnchanged

\* drawWinner's catch: sendError returns and the error is rethrown.
DrawErrorSent(c) ==
  /\ ~loop.exited
  /\ loop.check[c].pc = "sendError"
  /\ loop' = CheckEnded(loop, c, loop.check[c].fail = "fail")
  /\ LoopUnchanged

\* shutdown(), on SIGINT or SIGTERM: isRunning is cleared, then the
\* shutdown notification is awaited.
Shutdown ==
  /\ ~loop.exited /\ ~loop.shuttingDown
  /\ loop' = [loop EXCEPT !.isRunning = FALSE, !.shuttingDown = TRUE]
  /\ LoopUnchanged

\* shutdown(), after the notification: process.exit(0)
ProcessExit ==
  /\ loop.shuttingDown /\ ~loop.exited
  /\ loop' = [loop EXCEPT !.exited = TRUE]
  /\ LoopUnchanged

LoopNext ==
  \/ \E c \in Checks : MonitorFires(c)
  \/ \E c \in Checks : LoopPotStateReply(c)
  \/ \E c \in Checks : EstimateGasReply(c)
  \/ \E c \in Checks : DrawWinnerReply(c)
  \/ \E c \in Checks : TxWaitReply(c)
  \/ \E c \in Checks : WinnerDrawnSent(c)
  \/ \E c \in Checks : DrawErrorSent(c)
  \/ Shutdown
  \/ ProcessExit

\* The service after start(), beside an orchestrator with one endpoint.
LoopStart == Init /\ nEndpoints = 1

LoopSpec == LoopStart /\ [][LoopNext]_vars

\* ===================================================================== claims
InFlight == {t \in Ticks : tk[t].pc # "idle"}
HasRead(t) == tk[t].pc \notin {"idle", "getPotState"}

\* C1 -- Single-flight.  At most one invocation of checkAndProcessGameState
\* is past the guard at any time: while one is unfinished isProcessing is
\* set, so a later invocation returns at the guard with nothing read and no
\* call made; hence at most one ledger-mutating call is outstanding.
C1_SingleFlight ==
  /\ Cardinality(InFlight) <= 1
  /\ Cardinality({t \in Ticks : tk[t].pc \in TxPcs}) <= 1
  /\ (InFlight # {} => isProcessing)

\* C1 witness: a ledger-mutating call is outstanding and the cron job can
\* invoke checkAndProcessGameState again, which the guard turns away.
C1_Witness ==
  \E t \in Ticks, u \in Ticks :
    tk[t].pc \in TxPcs /\ FreeSlot(u) /\ GuardBlocks(isProcessing)

C3_Cancellation ==
  /\ \A t \in Ticks :
       (HasRead(t) /\ tk[t].st.phase = LOCKED /\ tk[t].st.tickets = 0)
         => /\ "emergencyCancel" \in tk[t].calls
            /\ tk[t].calls \cap BeaconCalls = {}
            /\ "finishGame" \notin tk[t].calls
  /\ obs.zeroPots \cap obs.beaconPots = {}
  /\ \A p \in obs.zeroPots : <<p, "finishGame">> \notin obs.subs

\* C3 witness: such an invocation has ended, its cancel confirmed.
C3_Witness ==
  \E t \in Ticks :
    /\ tk[t].pc = "finally" /\ tk[t].err = "none"
    /\ tk[t].st.phase = LOCKED /\ tk[t].st.tickets = 0
    /\ "emergencyCancel" \in tk[t].calls

\* C4 -- finish follows the beacon.  An invocation calls finish only after
\* its own getFutureBlockHash has returned a block, and with exactly the
\* hash that call returned; an invocation whose beacon call failed does not
\* call finish.
C4_FinishAfterBeacon ==
  \A t \in Ticks :
    /\ "finishGame" \in tk[t].calls
         => /\ tk[t].st.phase = LOCKED /\ tk[t].st.tickets > 0
            /\ tk[t].got = "block"
            /\ tk[t].eosBlock.blockNum = tk[t].target
            /\ tk[t].eosBlock.blockHash = BlockHashOf(BlockIdOf(tk[t].target))
            /\ tk[t].finishArg = tk[t].eosBlock.blockHash
    /\ tk[t].err \in {"getChainInfo", "getBlock", "beaconTimeout"}
         => "finishGame" \notin tk[t].calls

\* C4 witness: finish is outstanding with the hash of the target block.
C4_Witness ==
  \E t \in Ticks :
    tk[t].pc = "finishTx" /\ tk[t].finishArg = BlockHashOf(BlockIdOf(tk[t].target))

\* C5 (as stated) -- Unpredictability.  When getFutureBlockHash fixes its
\* target, the target block is beyond the head block the same get_info
\* reply reports: it has not been produced yet.
C5_TargetNotYetProduced ==
  \A t \in Ticks :
    tk[t].pc = "getBlock" => tk[t].target > tk[t].info.headBlockNum

\* C6 (as stated) -- Seed format.  Every blockHash getFutureBlockHash
\* returns matches ^0x[0-9a-f]{64}$.
C6_SeedFormat ==
  \A t \in Ticks :
    tk[t].got = "block" => SeedFormatOK(tk[t].eosBlock.blockHash)

C8_NotYetProducedIsNull ==
  \A t \in Ticks : (tk[t].got = "throw" => ~tk[t].missing)

\* C9 (as stated) -- waitForBlock keeps polling while the block is missing:
\* once a poll has found the block missing, waitForBlock is still polling,
\* or has returned the block, or has failed with the timeout after maxWaitMs.
C9_PollsUntilBlockOrTimeout ==
  \A t \in Ticks :
    (tk[t].polled /\ tk[t].missing)
      => \/ tk[t].pc = "getBlock"
         \/ tk[t].got = "block"
         \/ tk[t].err = "beaconTimeout"

C12_BadSeedRejected ==
  \A t \in Ticks :
    /\ (tk[t].got = "block" /\ ~ContractFormatOK(tk[t].eosBlock.blockHash))
         => /\ tk[t].pc = "finally" /\ tk[t].err = "format"
            /\ "finishGame" \notin tk[t].calls
            /\ tk[t].calls \cap PersistenceCalls = {}
            /\ ledger.potId = tk[t].st.potId /\ ledger.phase = LOCKED
            /\ Dispatched(IdleTick, [potId |-> ledger.potId, phase |-> ledger.phase,
                                      startTime |-> ledger.startTime,
                                      tickets |-> ledger.tickets]).pc = "getChainInfo"
    /\ tk[t].pc = "finishTx" => ContractFormatOK(tk[t].finishArg)

\* C12 witness: an invocation has ended with the format error on the seed
\* getFutureBlockHash returned.
C12_Witness ==
  \E t \in Ticks :
    /\ tk[t].pc = "finally" /\ tk[t].err = "format"
    /\ tk[t].got = "block" /\ ~ContractFormatOK(tk[t].eosBlock.blockHash)

\* C13 -- Endpoint failover.  Within one makeRpcCall the k-th attempt goes
\* to endpoint (start + k) mod N, so the attempts go to distinct endpoints
\* in round-robin order from the current one; a successful reply ends the
\* call with that reply; the call throws only when the N-th attempt has
\* failed, and then an aggregate error with the last failure's message.
C13_Failover ==
  \A t \in Ticks :
    /\ (tk[t].pc \in {"getChainInfo", "getBlock"} /\ ~tk[t].sleeping)
         => /\ tk[t].attempt < nEndpoints
            /\ currentEndpointIndex = (tk[t].idx0 + tk[t].attempt) % nEndpoints
    /\ tk[t].err \in {"getChainInfo", "getBlock"}
         => /\ tk[t].attempt = nEndpoints - 1
            /\ currentEndpointIndex = (tk[t].idx0 + nEndpoints - 1) % nEndpoints
            /\ tk[t].thrown.kind = "aggregate"
            /\ tk[t].lastFail.kind = "axios"
            /\ tk[t].thrown.message = tk[t].lastFail.message
    /\ tk[t].got = "block" => tk[t].eosBlock.blockNum = tk[t].target

\* C13 witness: with two endpoints a call has failed on both, the second
\* attempt on the other endpoint, and has thrown the last failure's message.
C13_Witness ==
  \E t \in Ticks :
    /\ nEndpoints = 2 /\ tk[t].err = "getBlock"
    /\ currentEndpointIndex # tk[t].idx0
    /\ tk[t].thrown.message = "status500"

\* C14 (as stated) -- Sticky endpoint selection.  While every reply of a
\* getBlock call so far was "block not yet produced" from a healthy
\* endpoint, the current endpoint index is the one the call started with.
C14_NotYetProducedKeepsEndpoint ==
  \A t \in Ticks :
    (tk[t].pc \in {"getBlock", "finally"} /\ ~tk[t].sleeping /\ tk[t].missing)
      => currentEndpointIndex = tk[t].idx0

\* C15 -- Guaranteed guard release.  isProcessing is set for as long as an
\* invocation that passed the guard has not returned (so before its first
\* awaited call), it is clear whenever no such invocation exists, and the
\* step by which an invocation returns, however it ended, clears it.
C15_GuardReleased ==
  /\ [](\A t \in Ticks : tk[t].pc # "idle" => isProcessing)
  /\ [](InFlight = {} => ~isProcessing)
  /\ [][\A t \in Ticks : (tk[t].pc # "idle" /\ tk'[t].pc = "idle")
                           => (tk[t].pc = "finally" /\ ~isProcessing')]_vars

\* C15 witness: an invocation whose handler failed (the beacon call threw)
\* has returned, and the guard is clear.
C15_Witness ==
  obs.lastMissed = "rpcError" /\ InFlight = {} /\ ~isProcessing

\* C16 -- a tick never propagates an error to the scheduler.  Whatever an
\* invocation ended with is absorbed by a catch block of a handler or of
\* checkAndProcessGameState, no invocation has returned by throwing, and
\* when no invocation is pending the next scheduled one passes the guard.
C16_NothingEscapes ==
  /\ ~obs.escaped
  /\ \A t \in Ticks : tk[t].pc = "finally" => CatchOf(tk[t].err) # "scheduler"
  /\ InFlight = {} => \E u \in Ticks : FreeSlot(u) /\ ~GuardBlocks(isProcessing)

\* C16 witness: after an invocation whose ledger-mutating call failed, a
\* later one has run and submitted the call again, and a third one has
\* ended with the failure of the ledger read.
C16_Witness ==
  /\ obs.reSub /\ ~obs.escaped
  /\ \E t \in Ticks : tk[t].pc = "finally" /\ tk[t].err = "getPotState"

\* C17 -- a tick that reads Betting.  At the step in which the invocation
\* gets the state, it issues lockGame if now >= startTime + timerDuration
\* and otherwise ends having made no call but the read; for the rest of the
\* invocation lockGame is the only ledger-mutating call it has made, and it
\* makes no beacon call.
C17_BettingTick ==
  /\ [](\A t \in Ticks :
          (HasRead(t) /\ tk[t].st.phase = BETTING)
            => /\ tk[t].calls \cap MutatingCalls \subseteq {"lockGame"}
               /\ tk[t].calls \cap BeaconCalls = {}
               /\ tk[t].pc \in {"lockTx", "updateLock", "finally"}
               /\ tk[t].pc \in {"lockTx", "updateLock"} => "lockGame" \in tk[t].calls)
  /\ [][\A t \in Ticks :
           (tk[t].pc = "getPotState" /\ tk'[t].pc # "getPotState"
              /\ tk'[t].st.phase = BETTING)
             => IF now >= tk'[t].st.startTime + TimerDuration
                  THEN tk'[t].pc = "lockTx"
                       /\ tk'[t].calls = {"getPotState", "lockGame"}
                  ELSE tk'[t].pc = "finally" /\ tk'[t].err = "none"
                       /\ tk'[t].calls = {"getPotState"}]_vars

\* C17 witness: lockGame is outstanding, issued at the very time the timer
\* expired.
C17_Witness ==
  \E t \in Ticks :
    /\ tk[t].st.phase = BETTING /\ tk[t].pc = "lockTx"
    /\ now = tk[t].st.startTime + TimerDuration

\* C18 -- Retry by re-polling.  When an earlier invocation submitted lock
\* (finish) for a pot without effect and an invocation now reads that pot
\* still Betting (Locked), it issues lockGame again (calls the beacon
\* again, and submits finish again once the beacon has returned a seed
\* that passes the format check).
C18_RetryByRepolling ==
  /\ [][\A t \in Ticks :
           (tk[t].pc = "getPotState" /\ tk'[t].st.potId # 0)
             => /\ (<<tk'[t].st.potId, "lockGame">> \in obs.subs \ obs.okSubs
                      /\ tk'[t].st.phase = BETTING)
                     => (tk'[t].pc = "lockTx" /\ obs'.retrying)
                /\ (<<tk'[t].st.potId, "finishGame">> \in obs.subs \ obs.okSubs
                      /\ tk'[t].st.phase = LOCKED)
                     => tk'[t].pc = "getChainInfo"]_vars
  /\ [][\A t \in Ticks :
           (tk[t].pc = "getBlock" /\ tk'[t].got = "block"
              /\ <<tk[t].st.potId, "finishGame">> \in obs.subs \ obs.okSubs
              /\ ContractFormatOK(tk'[t].eosBlock.blockHash))
             => (tk'[t].pc = "finishTx" /\ obs'.retrying)]_vars

\* C18 witness: a finish that had failed without effect is outstanding
\* again.
C18_Witness ==
  obs.retrying /\ \E t \in Ticks : tk[t].pc = "finishTx"

\* The GamePhase value of a phase label of the round record.
PhaseOfLabel(label) ==
  CASE label = "BETTING" -> BETTING
    [] label = "LOCKED" -> LOCKED
    [] label = "COMPLETE" -> COMPLETE
    [] OTHER -> IDLE

\* C19 -- Phase monotonicity.  For each pot id: the phase an invocation
\* observes is the ledger's, which never moves back while the pot id is the
\* same, and pot ids never decrease; the phase written to the round record
\* never moves back and is never ahead of the ledger's phase for that pot.
C19_PhaseMonotonic ==
  /\ [](\A p \in Pots :
          /\ p = ledger.potId => PhaseOfLabel(dbRounds[p].phase) <= ledger.phase
          /\ p > ledger.potId => dbRounds[p].phase = "none")
  /\ [](\A t \in Ticks :
          (HasRead(t) /\ tk[t].st.potId # 0)
            => /\ tk[t].st.potId <= ledger.potId
               /\ tk[t].st.potId = ledger.potId => tk[t].st.phase <= ledger.phase)
  /\ [][\A p \in Pots :
           PhaseOfLabel(dbRounds'[p].phase) >= PhaseOfLabel(dbRounds[p].phase)]_vars
  /\ [][/\ ledger'.potId >= ledger.potId
         /\ ledger'.potId = ledger.potId => ledger'.phase >= ledger.phase]_vars
  /\ [][\A t \in Ticks :
           (tk[t].pc = "getPotState" /\ tk'[t].st.potId # 0)
             => /\ tk'[t].st.potId = ledger.potId
                /\ tk'[t].st.phase = ledger.phase]_vars

\* C19 witness: the record of pot 1 has gone through to COMPLETE and an
\* invocation has observed pot 2.
C19_Witness ==
  /\ dbRounds[1].phase = "COMPLETE"
  /\ \E t \in Ticks : tk[t].st.potId = 2

\* C20 (as stated) -- once no invocation is pending, every pot that is
\* Complete on the ledger or has been retired has a round record that is
\* COMPLETE with a well-formed seed and a stored beacon proof, or a record
\* of its cancellation.
C20_CompleteHasProofOrCancellation ==
  InFlight = {} =>
    \A p \in Pots :
      (p < ledger.potId \/ (p = ledger.potId /\ ledger.phase = COMPLETE))
        => \/ /\ dbRounds[p].phase = "COMPLETE"
              /\ SeedFormatOK(dbRounds[p].hash)
              /\ \E q \in dbProofs : q.potId = p /\ q.hash = dbRounds[p].hash
           \/ /\ p \in obs.zeroPots
              /\ dbRounds[p].phase = "CANCELLED"

\* C21 (as stated) -- Idempotent recording.  Once an invocation has run the
\* Complete handler for a pot, that pot has exactly one final record (a
\* single round record, COMPLETE, with its seed) and exactly one beacon
\* proof, however often the handler runs.
C21_RecordedExactlyOnce ==
  \A t \in Ticks :
    (tk[t].pc = "finally" /\ tk[t].st.phase = COMPLETE)
      => /\ dbRounds[tk[t].st.potId].rows = 1
         /\ dbRounds[tk[t].st.potId].phase = "COMPLETE"
         /\ dbRounds[tk[t].st.potId].hash # << >>
         /\ Cardinality({q \in dbProofs : q.potId = tk[t].st.potId}) = 1

C23_UnknownPhaseNoAction ==
  /\ [](\A t \in Ticks :
          (HasRead(t) /\ tk[t].st.phase \notin KnownPhases)
            => /\ tk[t].pc = "finally" /\ tk[t].err = "unknownPhase"
               /\ tk[t].calls = {"getPotState"})
  /\ [](\A v \in {UnknownPhase, NaN} :
          LET tick == Dispatched([IdleTick EXCEPT !.calls = {"getPotState"}],
                                 [NoState EXCEPT !.potId = ledger.potId, !.phase = v])
          IN tick.pc = "finally" /\ tick.calls = {"getPotState"})
  /\ [][\A t \in Ticks :
           (tk[t].st.phase \notin KnownPhases /\ tk[t].pc # "idle"
              /\ tk'[t].pc = "idle")
             => /\ ~isProcessing' /\ ~GuardBlocks(isProcessing')
                /\ FreeSlot(t)'
                /\ ledger' = ledger /\ dbRounds' = dbRounds /\ dbProofs' = dbProofs
                /\ obs'.subs = obs.subs]_vars

\* C23 witness: an invocation that read the unknown phase has ended, the
\* read being its only call.
C23_Witness ==
  \E t \in Ticks :
    /\ tk[t].pc = "finally" /\ tk[t].err = "unknownPhase"
    /\ tk[t].st.phase = UnknownPhase /\ tk[t].calls = {"getPotState"}

\* C24 -- getFutureBlockHash's target.  The call waits for the block
\* numbered lastIrreversibleBlockNum + offset, the pointer being the one its
\* own getChainInfo returned (the chain's pointer at that reply): every
\* getBlock request of the call is for that number, and the blockNum it
\* returns is that number.
C24_TargetIsPointerPlusOffset ==
  /\ [](\A t \in Ticks :
          /\ tk[t].pc = "getBlock"
               => tk[t].target = tk[t].info.lastIrreversibleBlockNum + FutureBlockOffset
          /\ tk[t].got = "block"
               => /\ tk[t].target =
                       tk[t].info.lastIrreversibleBlockNum + FutureBlockOffset
                  /\ tk[t].eosBlock.blockNum = tk[t].target)
  /\ [][\A t \in Ticks :
           (tk[t].pc = "getChainInfo" /\ tk'[t].pc = "getBlock")
             => /\ tk'[t].info.lastIrreversibleBlockNum = lib
                /\ tk'[t].target = lib + FutureBlockOffset]_vars
  /\ [][\A t \in Ticks :
           (tk[t].pc = "getBlock" /\ tk'[t].pc = "getBlock")
             => tk'[t].target = tk[t].target /\ tk'[t].info = tk[t].info]_vars

\* C24 witness: a call that read the finality pointer 1 has returned
\* block 1 + offset.
C24_Witness ==
  \E t \in Ticks :
    /\ tk[t].got = "block" /\ tk[t].info.lastIrreversibleBlockNum = 1
    /\ tk[t].eosBlock.blockNum = 1 + FutureBlockOffset

\* ------------------------------------------------------- verifyBlockHash
\* (variant: the fetched block id is compared as it is, without the prefix
\* and letter-case normalisation)
HashMatchesRaw(blockId, expectedHash) == blockId = expectedHash

\* verifyBlockHash's comparison: the block id, 0x-prefixed, against the
\* expected hash, both in lower case.
HashMatches(blockId, expectedHash) ==
  ToLowerCase(BlockHashOf(blockId)) = ToLowerCase(expectedHash)

\* verifyBlockHash(blockNum, expectedHash), its getBlock answered by the
\* chain: a block that is not there makes it throw.
VerifyBlockHash(blockNum, expectedHash) ==
  IF blockNum > head THEN "throw"
  ELSE IF HashMatches(BlockIdOf(blockNum), expectedHash) THEN "true" ELSE "false"

\* A hash as written, without an 0x prefix and in lower case.
Bare(h) ==
  LET l == ToLowerCase(h)
  IN IF StartsWith0x(l) THEN SubSeq(l, 3, Len(l)) ELSE l

\* Hashes an auditor may present: the ids and seeds of the chain's blocks,
\* as they are and in lower case, and a seed with an upper-case prefix.
AuditHashes ==
  UNION { { IdShapes[i], BlockHashOf(IdShapes[i]),
            ToLowerCase(BlockHashOf(IdShapes[i])) } : i \in 1..Len(IdShapes) }
    \cup { <<"0", "X">> \o IdCanonical("1") }

\* For every block id of the chain, the comparison refuses each presented
\* hash that differs from it, letter case and 0x prefix apart.
RefusesOtherHashes ==
  \A i \in 1..Len(IdShapes) : \A h \in AuditHashes :
    Bare(h) # Bare(IdShapes[i]) => ~HashMatches(IdShapes[i], h)

\* C25 -- Verification round-trip.  With the chain's produced blocks
\* unchanged, verifyBlockHash(r.blockNum, r.blockHash) is true for the
\* result r of every getFutureBlockHash call; verifyBlockHash(n, h) is false
\* for a hash h that differs, letter case and 0x prefix apart, from the id
\* of block n (the seed of another block among them); no invocation of the
\* orchestrator calls verifyBlockHash (its getBlock calls are those of
\* getFutureBlockHash, after getChainInfo).
C25_VerifyRoundTrip ==
  /\ RefusesOtherHashes
  /\ \A t \in Ticks :
       /\ tk[t].got = "block"
            => /\ VerifyBlockHash(tk[t].eosBlock.blockNum, tk[t].eosBlock.blockHash)
                    = "true"
               /\ BlockIdOf(head) # BlockIdOf(tk[t].eosBlock.blockNum)
                    => VerifyBlockHash(tk[t].eosBlock.blockNum,
                                       BlockHashOf(BlockIdOf(head))) = "false"
       /\ "verifyBlockHash" \notin tk[t].calls
       /\ "getBlock" \in tk[t].calls => "chainInfo" \in tk[t].calls

\* C25 witness: getFutureBlockHash has returned a block whose seed verifies,
\* while the seed of the head block, another block, is refused for it.
C25_Witness ==
  \E t \in Ticks :
    /\ tk[t].got = "block" /\ head > tk[t].eosBlock.blockNum
    /\ VerifyBlockHash(tk[t].eosBlock.blockNum, tk[t].eosBlock.blockHash) = "true"
    /\ VerifyBlockHash(tk[t].eosBlock.blockNum, BlockHashOf(BlockIdOf(head))) = "false"

\* C26 -- Ledger rejection and operator races.  When a ledger-mutating call
\* of an invocation returns without having changed the ledger (it was
\* rejected, as a lock is on a round an operator has locked meanwhile), the
\* invocation ends in that step: the error is caught by its handler, no
\* persistence call has been or is made, and the database is unchanged; its
\* return clears the guard.  The invocation after it reads the ledger anew
\* and runs the handler of the phase the ledger reports then.
C26_RejectionIsBenign ==
  /\ [][\A t \in Ticks :
           (tk[t].pc \in TxPcs /\ tk'[t].pc # tk[t].pc /\ ledger' = ledger)
             => /\ tk'[t].pc = "finally"
                /\ tk'[t].err \in MutatingCalls
                /\ CatchOf(tk'[t].err) \in {"handleIdlePhase", "handleBettingPhase",
                                            "handleLockedPhase"}
                /\ tk'[t].calls \cap PersistenceCalls = {}
                /\ dbRounds' = dbRounds /\ dbProofs' = dbProofs]_vars
  /\ [](\A t \in Ticks :
          tk[t].err \in MutatingCalls
            => /\ tk[t].pc = "finally"
               /\ tk[t].calls \cap PersistenceCalls = {})
  /\ [][\A t \in Ticks :
           (tk[t].err \in MutatingCalls /\ tk'[t].pc = "idle")
             => /\ ~isProcessing' /\ ~obs'.escaped
                /\ dbRounds' = dbRounds /\ dbProofs' = dbProofs]_vars
  /\ [][\A t \in Ticks :
           (tk[t].pc = "getPotState" /\ tk'[t].st.potId # 0)
             => /\ tk'[t].st.phase = ledger.phase
                /\ tk'[t].st.phase = IDLE => tk'[t].pc = "startGameTx"
                /\ tk'[t].st.phase = BETTING => tk'[t].pc \in {"lockTx", "finally"}
                /\ tk'[t].st.phase = LOCKED => tk'[t].pc \in {"cancelTx", "getChainInfo"}
                /\ tk'[t].st.phase = COMPLETE => tk'[t].pc = "finally"]_vars

\* C26 witness: the lock of an invocation that read the round Betting has
\* been rejected: the invocation has ended with that error and no
\* persistence call, the round is still Betting on the ledger and in its
\* record.
C26_Witness ==
  \E t \in Ticks :
    /\ tk[t].pc = "finally" /\ tk[t].err = "lockGame"
    /\ tk[t].st.phase = BETTING /\ tk[t].st.potId = ledger.potId
    /\ tk[t].calls \cap PersistenceCalls = {}
    /\ ledger.phase = BETTING
    /\ dbRounds[ledger.potId].phase = "BETTING"

\* ------------------------------------------------------------- progress
\* The steps that the hypotheses of round progress make happen.
\* The chain keeps producing blocks and advancing finality, the clock runs.
EnvironmentStep == ProduceBlock \/ AdvanceFinality \/ ClockTick

\* The cron job keeps firing and every awaited call returns.
TickStep ==
  \E t \in Ticks :
    \/ CronFire(t) \/ GetPotStateReply(t) \/ StartGameReply(t)
    \/ CreateRoundReply(t) \/ LockGameReply(t) \/ UpdateLockReply(t)
    \/ EmergencyCancelReply(t) \/ GetChainInfoReply(t) \/ WaitForBlockStep(t)
    \/ FinishGameReply(t) \/ UpdateFinishReply(t) \/ StoreProofReply(t)
    \/ TickFinally(t)

\* The ledger read succeeds.
ReadSucceeds == \E t \in Ticks : GetPotStateReply(t) /\ tk'[t].err = "none"

\* A ledger transaction is confirmed.
TxSucceeds ==
  \E t \in Ticks :
    \/ StartGameReply(t) /\ tk'[t].pc = "createRound"
    \/ LockGameReply(t) /\ tk'[t].pc = "updateLock"
    \/ EmergencyCancelReply(t) /\ tk'[t].err = "none"
    \/ FinishGameReply(t) /\ tk'[t].pc = "updateFinish"

\* The beacon answers get_info, and get_block with the block.
ChainInfoAnswered == \E t \in Ticks : GetChainInfoReply(t) /\ tk'[t].pc = "getBlock"
BlockAnswered == \E t \in Ticks : WaitForBlockStep(t) /\ tk'[t].got = "block"

\* Weak fairness for what keeps running, strong fairness for the calls that
\* succeed eventually.
Fairness ==
  /\ WF_vars(EnvironmentStep)
  /\ WF_vars(TickStep)
  /\ SF_vars(ReadSucceeds)
  /\ SF_vars(TxSucceeds)
  /\ SF_vars(ChainInfoAnswered)
  /\ SF_vars(BlockAnswered)

\* The service with one configured endpoint, under the hypotheses above.
LiveInit == Init /\ nEndpoints = 1
LiveSpec == LiveInit /\ [][Next]_vars /\ Fairness

C28_DrawOnlyWhenReady ==
  /\ auto.submitted
       => /\ auto.potState.isActive
          /\ auto.potState.timeRemaining = 0
          /\ auto.potState.uniqueParticipants >= MinParticipants
  /\ auto.potState = NoPot => ~auto.submitted
  /\ auto.winnersDrawn <= auto.monitored

\* C28 witness: a check has submitted drawWinner for a pot with exactly
\* MIN_PARTICIPANTS participants, after an earlier draw was confirmed.
C28_Witness ==
  /\ auto.submitted /\ auto.potState.uniqueParticipants = MinParticipants
  /\ auto.winnersDrawn >= 1

\* C29 (as stated) -- Error notifications are rate limited: two error
\* notifications of one type never go out less than ERROR_COOLDOWN apart.
C29_ErrorsRateLimited == ~auto.tooSoon

\* C30 (as stated) -- the consecutive-errors alert is raised by a check
\* only when the last MAX_CONSECUTIVE_ERRORS checks in a row have failed,
\* and a check that makes it that many in a row sends it.
C30_AlertOnlyForConsecutive ==
  /\ auto.alert # "none" => auto.streak >= MaxConsecutiveErrors
  /\ (auto.failed /\ auto.streak = MaxConsecutiveErrors) => auto.alert = "sent"

\* The await points of each handler of checkAndProcessGameState, and the
\* ledger-mutating calls it can make.
PcsOfHandler(h) ==
  CASE h = "handleIdlePhase" -> {"startGameTx", "createRound", "finally"}
    [] h = "handleBettingPhase" -> {"lockTx", "updateLock", "finally"}
    [] h = "handleLockedPhase" ->
         {"cancelTx", "getChainInfo", "getBlock", "finishTx", "updateFinish",
          "storeProof", "finally"}
    [] OTHER -> {"finally"}

\* C31 -- One read, one handler.  An invocation past the guard reads the
\* ledger state once (while the read is outstanding it has made no other
\* call, and it never goes back to the read), and from the read on it is
\* inside the handler of the phase it read; startGame is called only when
\* Idle was read, lockGame only when Betting was read, emergencyCancel and
\* finishGame only when Locked was read, and never both; an invocation
\* that read Complete makes no ledger-mutating call.
C31_OneReadOneHandler ==
  /\ [](\A t \in Ticks :
          /\ tk[t].pc = "getPotState"
               => tk[t].calls = {"getPotState"} /\ tk[t].st = NoState
          /\ tk[t].pc # "idle" => "getPotState" \in tk[t].calls
          /\ HasRead(t)
               => /\ tk[t].pc \in PcsOfHandler(HandlerOf(tk[t].st.phase))
                  /\ "startGame" \in tk[t].calls => tk[t].st.phase = IDLE
                  /\ "lockGame" \in tk[t].calls => tk[t].st.phase = BETTING
                  /\ "emergencyCancel" \in tk[t].calls => tk[t].st.phase = LOCKED
                  /\ "finishGame" \in tk[t].calls => tk[t].st.phase = LOCKED
                  /\ Cardinality(tk[t].calls \cap MutatingCalls) <= 1
                  /\ tk[t].st.phase = COMPLETE
                       => tk[t].calls \cap MutatingCalls = {})
  /\ [][\A t \in Ticks :
           /\ (tk'[t].pc = "getPotState" /\ tk[t].pc # "getPotState")
                => tk[t].pc = "idle"
           /\ (tk[t].pc = "getPotState" /\ tk'[t].pc # "getPotState"
                 /\ tk'[t].err # "getPotState")
                => /\ tk'[t].st.phase = ledger.phase
                   /\ tk'[t].st.potId = ledger.potId
           /\ (HasRead(t) /\ tk'[t].pc # "idle") => tk'[t].st = tk[t].st]_vars

\* C31 witness: an invocation that read Complete has ended with the read as
\* its only call, in a run in which all four ledger-mutating calls have
\* been made.
C31_Witness ==
  /\ \E t \in Ticks :
       /\ tk[t].pc = "finally" /\ tk[t].st.phase = COMPLETE
       /\ tk[t].calls = {"getPotState"}
  /\ {s[2] : s \in obs.subs} = MutatingCalls

\* C32 -- RPC error inside waitForBlock.  When a getBlock poll has failed
\* on every endpoint and the failures were not all 'block not yet produced'
\* (HTTP 400), waitForBlock throws that error at once: the invocation goes
\* to its finally block with the error logged, without sleeping, polling
\* again or calling finish, whether or not the wait's time is up, and it
\* leaves the ledger and the database as they are.
C32_RpcErrorEndsWait ==
  /\ [](\A t \in Ticks :
          tk[t].err = "getBlock"
            => /\ tk[t].pc = "finally" /\ tk[t].got = "throw"
               /\ ~tk[t].sleeping
               /\ "finishGame" \notin tk[t].calls
               /\ tk[t].calls \cap PersistenceCalls = {}
               /\ tk[t].eosBlock = NoEosBlock)
  /\ [][\A t \in Ticks :
           (/\ tk[t].pc = "getBlock" /\ ~tk[t].sleeping
            /\ tk[t].attempt = nEndpoints - 1
            /\ tk'[t] # tk[t]
            /\ tk'[t].pc # "finishTx" /\ tk'[t].err # "format"
            /\ ~tk'[t].missing)
             => /\ tk'[t].pc = "finally" /\ tk'[t].err = "getBlock"
                /\ tk'[t].thrown = AggregateError(tk'[t].lastFail)
                /\ ~tk'[t].repolled
                /\ ledger' = ledger /\ dbRounds' = dbRounds
                /\ dbProofs' = dbProofs /\ obs'.subs = obs.subs]_vars

\* C32 witness: with two endpoints, the target block produced and the
\* wait's time not up, the first poll has failed on both endpoints and the
\* invocation has ended; the round is still Locked.
C32_Witness ==
  \E t \in Ticks :
    /\ tk[t].err = "getBlock" /\ tk[t].pc = "finally"
    /\ tk[t].lastFail \in NetFailures
    /\ nEndpoints = 2 /\ tk[t].attempt = 1
    /\ tk[t].target <= head
    /\ WaitLoopCondition(tk[t].wStart, MaxWait)
    /\ ledger.phase = LOCKED /\ ledger.potId = tk[t].st.potId

\* The await points of the persistence calls, and the ledger-mutating call
\* whose confirmation each of them follows.
PersistencePcs == {"createRound", "updateLock", "updateFinish", "storeProof"}
TransitionOfPc(pc) ==
  CASE pc = "createRound" -> "startGame"
    [] pc = "updateLock" -> "lockGame"
    [] OTHER -> "finishGame"

\* C33 -- Persistence failures are isolated.  A persistence call is made
\* only after the ledger has applied the transition it records.  Whether
\* the call succeeds or fails (the database is left as it was), the
\* invocation goes on without an error: after createGameRound, the lock's
\* updateGameRound and storeEosProof it ends; after the finish's
\* updateGameRound it calls storeEosProof.  The step changes neither the
\* ledger nor the calls submitted, and no ledger-mutating call is ever
\* submitted for a pot after the ledger has applied it.
C33_PersistenceIsolated ==
  /\ [](\A t \in Ticks :
          /\ tk[t].pc \in PersistencePcs
               => /\ tk[t].err = "none"
                  /\ <<tk[t].st.potId, TransitionOfPc(tk[t].pc)>> \in obs.okSubs
          /\ (tk[t].pc = "finally" /\ tk[t].calls \cap PersistenceCalls # {})
               => tk[t].err = "none")
  /\ [](~obs.afterOk)
  /\ [][\A t \in Ticks :
           (tk[t].pc \in PersistencePcs /\ tk'[t] # tk[t])
             => /\ tk'[t].err = "none"
                /\ tk'[t].pc = IF tk[t].pc = "updateFinish"
                                 THEN "storeProof" ELSE "finally"
                /\ tk[t].pc = "updateFinish" => "storeEosProof" \in tk'[t].calls
                /\ tk'[t].calls \cap MutatingCalls = tk[t].calls \cap MutatingCalls
                /\ ledger' = ledger /\ obs' = obs]_vars

\* C33 witness: the finish's update of the round record has failed (the
\* record is not COMPLETE), storeEosProof was attempted all the same and
\* stored the proof, and the invocation has ended without an error.
C33_Witness ==
  \E t \in Ticks :
    /\ tk[t].pc = "finally" /\ tk[t].err = "none"
    /\ "storeEosProof" \in tk[t].calls
    /\ dbRounds[tk[t].st.potId].phase # "COMPLETE"
    /\ \E q \in dbProofs : q.potId = tk[t].st.potId
    /\ ledger.phase = COMPLETE /\ ledger.potId = tk[t].st.potId

\* C34 -- The zero-ticket cancel path writes nothing.  An invocation that
\* called emergencyCancel makes no persistence call and no beacon call;
\* from the call to the invocation's return, whether the cancellation
\* succeeds or fails, the round records and the stored proofs stay exactly
\* as they were; and a pot that was read Locked without tickets never gets
\* a COMPLETE record or a proof.
C34_CancelWritesNothing ==
  /\ [](\A t \in Ticks :
          "emergencyCancel" \in tk[t].calls
            => /\ tk[t].calls = {"getPotState", "emergencyCancel"}
               /\ tk[t].pc \in {"cancelTx", "finally"}
               /\ tk[t].eosBlock = NoEosBlock)
  /\ [](\A p \in obs.zeroPots :
          /\ dbRounds[p].phase # "COMPLETE"
          /\ \A q \in dbProofs : q.potId # p)
  /\ [][\A t \in Ticks :
           ("emergencyCancel" \in tk'[t].calls \/ "emergencyCancel" \in tk[t].calls)
             => /\ dbRounds' = dbRounds
                /\ dbProofs' = dbProofs]_vars
  /\ [][\A t \in Ticks :
           (tk[t].pc = "cancelTx" /\ tk'[t] # tk[t])
             => tk'[t].pc = "finally"
                /\ tk'[t].err \in {"none", "emergencyCancel"}]_vars

\* C34 witness: the cancellation of a pot whose lock was recorded has been
\* confirmed; the ledger has moved to the next pot and the record of the
\* cancelled pot still says LOCKED.
C34_Witness ==
  \E t \in Ticks :
    /\ tk[t].pc = "finally" /\ tk[t].err = "none"
    /\ "emergencyCancel" \in tk[t].calls
    /\ dbRounds[tk[t].st.potId].phase = "LOCKED"
    /\ ledger.potId = tk[t].st.potId + 1 /\ ledger.phase = IDLE
    /\ dbProofs = {}

\* C35 -- Scheduler lifecycle.  isRunning is true exactly when a cron job
\* is held, and then exactly one job is scheduled, otherwise none; a
\* running manager is initialized.  start() before initialize() throws,
\* start() while running and stop() while not running return at once: each
\* of these calls changes nothing.  An invocation of
\* checkAndProcessGameState is started only while the manager is running,
\* so none is started after stop(); and no lifecycle call touches an
\* invocation in flight or the guard, so that it runs on to its end.
C35_SchedulerLifecycle ==
  /\ [](/\ mgr.isRunning <=> mgr.cronJob
        /\ mgr.jobs = IF mgr.isRunning THEN 1 ELSE 0
        /\ mgr.isRunning => mgr.initialized
        /\ mgr.last = "threw" => ~mgr.initialized /\ ~mgr.isRunning
        /\ mgr.last = "alreadyRunning" => mgr.isRunning
        /\ mgr.last = "notRunning" => ~mgr.isRunning)
  /\ [][(mgr' # mgr /\ mgr'.last \in {"threw", "alreadyRunning", "notRunning"})
          => [mgr' EXCEPT !.last = mgr.last] = mgr]_vars
  /\ [][(mgr' # mgr /\ ~mgr.initialized /\ mgr'.last \in {"started", "threw"})
          => mgr'.last = "threw" /\ ~mgr'.isRunning]_vars
  /\ [][\A t \in Ticks :
           (tk[t].pc = "idle" /\ tk'[t].pc # "idle") => mgr.isRunning]_vars
  /\ [][mgr' # mgr
          => /\ tk' = tk /\ isProcessing' = isProcessing
             /\ ledger' = ledger /\ dbRounds' = dbRounds /\ dbProofs' = dbProofs]_vars

\* C35 witness: stop() ran while an invocation was in flight; the
\* invocation has since returned and cleared the guard, and a further
\* stop() has found the manager not running.
C35_Witness ==
  /\ mgr.last = "notRunning" /\ mgr.inFlightAtStop
  /\ ~mgr.isRunning /\ mgr.jobs = 0
  /\ \A t \in Ticks : tk[t].pc = "idle"
  /\ ~isProcessing
  /\ ledger.phase = BETTING

\* C36 -- The monitoring loop runs one check at a time.  At most one run
\* of monitor is in progress; while one is, no further run is scheduled,
\* and a run is scheduled only by the step that ends a check; so at most
\* one drawWinner transaction is being submitted or awaiting confirmation.
\* A check is begun (getPotState called) only while isRunning is true:
\* once shutdown has cleared it, a scheduled run returns without reading
\* the contract and schedules nothing.
C36_ChecksNeverOverlap ==
  /\ [](/\ Cardinality({c \in Checks : loop.check[c].pc # "idle"}) <= 1
        /\ loop.timers <= 1
        /\ (\E c \in Checks : loop.check[c].pc # "idle") => loop.timers = 0
        /\ Cardinality({c \in Checks : loop.check[c].pc \in {"drawWinner", "wait"}}) <= 1)
  /\ [][loop'.timers > loop.timers
          => \E c \in Checks : loop.check[c].pc # "idle" /\ loop'.check[c].pc = "idle"]_vars
  /\ [][\A c \in Checks :
           (loop.check[c].pc = "idle" /\ loop'.check[c].pc # "idle")
             => /\ loop.isRunning /\ ~loop.exited
                /\ loop'.check[c].pc = "getPotState"]_vars
  /\ [][(~loop.isRunning /\ loop'.timers < loop.timers)
          => /\ loop'.check = loop.check
             /\ loop'.timers = 0]_vars

\* C36 witness: shutdown has cleared isRunning and the run of monitor that
\* was scheduled has returned at once (no check has thrown, so the loop
\* was not ended by the alert): nothing is in progress, nothing is
\* scheduled, and the process has not exited yet.
C36_Witness ==
  /\ ~loop.isRunning /\ loop.shuttingDown /\ ~loop.exited
  /\ loop.timers = 0 /\ loop.errors = 0
  /\ \A c \in Checks : loop.check[c].pc = "idle"

\* C37 (as stated) -- Bet bookkeeping.  Once every request made has been
\* answered with success, each round's total_pot is the sum of the amounts
\* of the bets recorded for it (no update is lost); and no bet is ever
\* recorded without its enterPotFor transaction confirmed.
C37_BetBookkeeping ==
  /\ (\A r \in Requests : api.req[r].pc \in {"idle", "done"})
       => \A k \in 1..api.nRounds : api.rounds[k].total_pot = api.rounds[k].betSum
  /\ \A k \in 1..api.nRounds : api.rounds[k].unconfirmed = 0

====
